---- MODULE Spec2Model ----
(***************************************************************************)
(* State-machine model of the media service (02.Media/media-service):      *)
(* the Express router of routes/media.ts over the metadata store           *)
(* (services/database.ts), the object store (services/storage.ts) and the  *)
(* event publisher (services/publisher.ts).                                *)
(*                                                                         *)
(* Every await on a collaborator is one step of the request that makes     *)
(* it, so concurrent requests interleave at exactly the suspension points  *)
(* of the handlers.  A collaborator call either succeeds or rejects; the   *)
(* choice is nondeterministic.                                             *)
(***************************************************************************)
EXTENDS Integers, Sequences, FiniteSets, TLC

(***************************************************************************)
(* Bounds of the model.                                                    *)
(***************************************************************************)
MaxIds == 1        \* uuid() values handed out while all endpoints are served
MaxUploadIds == 3  \* uuid() values handed out while only uploads are served
MaxReqs == 2       \* requests in flight at once
MaxBatch == 3      \* files in one multipart upload
MaxMs == 1         \* the database clock runs from 0 to MaxMs milliseconds
MaxSubUs == 0      \* ... and up to MaxSubUs microseconds into a millisecond

(***************************************************************************)
(* Program constants.                                                      *)
(***************************************************************************)
UsPerMs == 1000    \* TIMESTAMPTZ keeps microseconds, a JS Date milliseconds
FileMaxCount == 1  \* upload.fields: { name: 'file', maxCount: 1 }
FilesMaxCount == 10 \* upload.fields: { name: 'files', maxCount: 10 }


NoId == 0
NoTime == -1

\* the pub/sub stream is cut off one message past what the ids allow
MaxEvents == 2 * (MaxIds + MaxUploadIds) + 1

Min(a, b) == IF a < b THEN a ELSE b

(***************************************************************************)
(* config.ts: the default allow-list, and the extension table of           *)
(* extensionFrom.                                                          *)
(***************************************************************************)
DEFAULT_ALLOWED_TYPES ==
  {"image/jpeg", "image/png", "image/webp", "image/gif", "image/avif"}

allowedMimeTypes == DEFAULT_ALLOWED_TYPES

\* a check that lets every type through
assertMimeTypeAny(mimeType) == TRUE

\* assertMimeType throws (statusCode 400) iff this is FALSE.
assertMimeType(mimeType) == mimeType \in allowedMimeTypes

byMime(mimeType) ==
  CASE mimeType = "image/jpeg" -> "jpg"
    [] mimeType = "image/png" -> "png"
    [] mimeType = "image/webp" -> "webp"
    [] mimeType = "image/gif" -> "gif"
    [] mimeType = "image/avif" -> "avif"
    [] OTHER -> ""

\* extensionFrom(mimeType, fileName): the table first, else the sanitised
\* extension of the file name (carried by the file as rawExt).
extensionFrom(mimeType, rawExt) ==
  IF byMime(mimeType) # "" THEN byMime(mimeType) ELSE rawExt

\* a key without the owner's directory
buildObjectKeyFlat(userId, id, extension) ==
  [prefix |-> "uploads", userId |-> "", id |-> id, ext |-> extension]

buildObjectKey(userId, id, extension) ==
  [prefix |-> "uploads", userId |-> userId, id |-> id, ext |-> extension]

NoKey == [prefix |-> "", userId |-> "", id |-> NoId, ext |-> ""]

(***************************************************************************)
(* The metadata store: table media_objects (sql/001_init.sql) behind       *)
(* services/database.ts.  A table is a function from the ids of its rows.  *)
(***************************************************************************)
NoRow ==
  [id |-> NoId, ownerId |-> "", originalName |-> "", storedKey |-> NoKey,
   mimeType |-> "", sizeBytes |-> 0, width |-> 0, height |-> 0,
   status |-> "NONE", uploadedAt |-> NoTime, deletedAt |-> NoTime]

EmptyTable == [i \in {} |-> NoRow]

\* INSERT ... VALUES (..., 'ACTIVE') RETURNING *: status is the literal
\* 'ACTIVE', uploaded_at takes DEFAULT NOW(), deleted_at stays NULL.
NewRow(input, t) ==
  [id |-> input.id, ownerId |-> input.ownerId,
   originalName |-> input.originalName, storedKey |-> input.storedKey,
   mimeType |-> input.mimeType, sizeBytes |-> input.sizeBytes,
   width |-> input.width, height |-> input.height,
   status |-> "ACTIVE", uploadedAt |-> t, deletedAt |-> NoTime]

\* pg hands a TIMESTAMPTZ to the driver as a JS Date: whole milliseconds.
ToJsDate(t) == IF t = NoTime THEN NoTime ELSE t \div UsPerMs

mapRow(row) ==
  [row EXCEPT !.uploadedAt = ToJsDate(@), !.deletedAt = ToJsDate(@)]

\* the table after the INSERT
createTable(table, input, t) ==
  (input.id :> NewRow(input, t)) @@ table

\* the row the INSERT returns
createMediaObject(table, input, t) == mapRow(NewRow(input, t))

getMediaObjectById(table, id) ==
  IF id \in DOMAIN table THEN mapRow(table[id]) ELSE NoRow

\* UPDATE ... SET status = 'DELETED', deleted_at = NOW()
\*  WHERE id = $1 AND status != 'DELETED' RETURNING *
\* The statement is atomic: it matches at most the one row of that id, and
\* only while that row is not DELETED.
SoftDeleteMatchesLoose(table, id) == id \in DOMAIN table

SoftDeleteMatches(table, id) ==
  id \in DOMAIN table /\ table[id].status # "DELETED"

\* an UPDATE that forgets deleted_at
softDeleteTableNoStamp(table, id, t) ==
  IF SoftDeleteMatches(table, id)
    THEN [table EXCEPT ![id] = [@ EXCEPT !.status = "DELETED"]]
    ELSE table

\* an UPDATE that also overwrites uploaded_at
softDeleteTableRestamp(table, id, t) ==
  IF SoftDeleteMatches(table, id)
    THEN [table EXCEPT ![id] = [@ EXCEPT !.status = "DELETED", !.deletedAt = t,
                                         !.uploadedAt = t]]
    ELSE table

\* the table after the statement
softDeleteTable(table, id, t) ==
  IF SoftDeleteMatches(table, id)
    THEN [table EXCEPT ![id] = [@ EXCEPT !.status = "DELETED", !.deletedAt = t]]
    ELSE table

\* a softDelete that returns the row of the id whether or not it matched
softDeleteMediaObjectAnyRow(table, id, t) ==
  IF id \in DOMAIN table
    THEN mapRow([table[id] EXCEPT !.status = "DELETED", !.deletedAt = t])
    ELSE NoRow

\* the row the statement returns (NoRow for rowCount = 0)
softDeleteMediaObject(table, id, t) ==
  IF SoftDeleteMatches(table, id)
    THEN mapRow([table[id] EXCEPT !.status = "DELETED", !.deletedAt = t])
    ELSE NoRow

(***************************************************************************)
(* The state.                                                              *)
(***************************************************************************)
VARIABLES
  rows,     \* media_objects
  store,    \* keys of the objects in the bucket
  events,   \* messages published on photo:uploaded / photo:deleted, in order
  now,      \* the database clock, in microseconds
  nextId,   \* the next value uuid() returns
  idLimit,  \* the last value uuid() returns in this behaviour
  reqs,     \* the requests in flight: handler position, locals, response
  pg,       \* a client paging through db.listMediaObjects: its pages so far
  rate,     \* redis as rateLimiter.consume sees it, and the calls in flight
  pure      \* a helper function of routes/media.ts: its arguments, its result

vars == <<rows, store, events, now, nextId, idLimit, reqs, pg, rate, pure>>

ReqIds == DOMAIN reqs
Ids == 1..idLimit

\* req.user as authMiddleware resolves it: an owner, another user, and an
\* administrator (who is the owner of what they upload themselves).
Callers ==
  { [id |-> "u1", role |-> "USER"], [id |-> "u2", role |-> "USER"],
    [id |-> "u2", role |-> "ADMIN"] }

NoCursor == [kind |-> "none", ms |-> 0]
InvalidCursor == [kind |-> "invalid", ms |-> 0]

\* a cursor string that new Date() parses, as the millisecond it denotes
DateCursor(ms) == [kind |-> "date", ms |-> ms]

NoQuery == [limit |-> 0, cursor |-> NoCursor, scope |-> ""]

NoUser == [id |-> "", role |-> ""]

NoBody == [tag |-> "none"]

NoCur == [id |-> NoId, key |-> NoKey]

\* A request slot before any request has used it.
IdleReq ==
  [kind |-> "none", pc |-> "idle", user |-> NoUser, id |-> NoId,
   flag |-> FALSE, query |-> NoQuery, files |-> <<>>, idx |-> 0, cur |-> NoCur,
   items |-> <<>>, failed |-> <<>>, target |-> NoRow, deleted |-> NoRow,
   calls |-> <<>>, status |-> 0, body |-> NoBody]

Free(r) == reqs[r].pc \in {"idle", "done"}

\* res.status(code).json(body): the handler returns, its locals are gone.
Respond(q, code, body) ==
  [IdleReq EXCEPT !.kind = q.kind, !.user = q.user, !.id = q.id,
                  !.flag = q.flag, !.query = q.query, !.files = q.files,
                  !.calls = q.calls,
                  !.pc = "done", !.status = code, !.body = body]

\* errorHandler: an error that reaches next() is answered with its
\* statusCode, 500 when it carries none.
errorHandler(q, statusCode, message) ==
  Respond(q, IF statusCode = 0 THEN 500 ELSE statusCode,
          [tag |-> "error", message |-> message])

\* The collaborator calls a request has made so far, in order: the
\* operation, the file of the batch it was made for (0 outside a batch), the
\* id it was made with, whether it resolved, and the row it returned.
Call(q, op, arg, ok, row) ==
  [q EXCEPT !.calls = Append(@, [op |-> op, file |-> q.idx, arg |-> arg,
                                 ok |-> ok, row |-> row])]

(***************************************************************************)
(* services/rateLimiter.ts: RateLimiter.consume on the key rate:<userId>   *)
(* of one identity.  The key is absent while count = 0; expiry is the      *)
(* redis time at which the key is dropped, NoTime while it has none;       *)
(* dropped counts the keys that have expired, so it numbers the key a      *)
(* consume call incremented.                                               *)
(***************************************************************************)
windowSeconds == 1   \* RATE_LIMIT_WINDOW_SECONDS the service runs with
maxRequests == 2     \* RATE_LIMIT_MAX_REQUESTS the service runs with
TicksPerSec == 4     \* the redis clock advances in steps of 1/TicksPerSec s
MaxRateTicks == 6    \* the redis clock runs from 0 to MaxRateTicks
MaxConsumers == 2    \* consume calls in flight at once
MaxRateLog == 4      \* consume calls in one behaviour

NoConsume == [pc |-> "idle", current |-> 0, ttl |-> 0, admitted |-> FALSE]

NoRate ==
  [clock |-> 0, count |-> 0, expiry |-> NoTime, dropped |-> 0,
   calls |-> [c \in 1..MaxConsumers |-> NoConsume], log |-> <<>>]

\* INCR: an absent key counts from 0
redisIncr(rt) == [rt EXCEPT !.count = @ + 1]

\* TTL: -2 for an absent key, -1 for a key without expiry, else the
\* remaining milliseconds rounded to whole seconds
redisTtl(rt) ==
  IF rt.count = 0 THEN -2
  ELSE IF rt.expiry = NoTime THEN -1
  ELSE (((rt.expiry - rt.clock) * 1000) \div TicksPerSec + 500) \div 1000

\* EXPIRE key seconds: no effect on an absent key
redisExpire(rt, seconds) ==
  IF rt.count = 0 THEN rt
  ELSE [rt EXCEPT !.expiry = rt.clock + seconds * TicksPerSec]

\* Number(x) || d
NumberOr(x, d) == IF x = 0 THEN d ELSE x

\* if (current === 1 || ttl < 0) await redis.expire(redisKey, windowSeconds)
NeedsExpire(current, ttl) == current = 1 \/ ttl < 0

\* a check that lets one call more through
AdmitsOneMore(current) == ~(current > maxRequests + 1)

\* if (current > this.maxRequests) throw new Error('RATE_LIMITED')
Admits(current) == ~(current > maxRequests)

\* time passes in redis; a key is dropped when its expiry is reached
RateTick ==
  /\ rate.clock < MaxRateTicks
  /\ rate' = IF rate.expiry # NoTime /\ rate.clock + 1 >= rate.expiry
               THEN [rate EXCEPT !.clock = @ + 1, !.count = 0, !.expiry = NoTime,
                                 !.dropped = @ + 1]
               ELSE [rate EXCEPT !.clock = @ + 1]
  /\ UNCHANGED <<rows, store, events, now, nextId, idLimit, reqs, pg, pure>>

\* pipeline.incr(redisKey); pipeline.ttl(redisKey); await pipeline.exec()
\* MULTI runs both commands as one step of redis.  Without an expire to
\* await, the check of current follows in the same turn.
ConsumeExec(c) ==
  /\ rate.calls[c].pc \in {"idle", "done"}
  /\ Len(rate.log) < MaxRateLog
  /\ LET after == redisIncr(rate)
         current == NumberOr(after.count, 0)
         ttl == NumberOr(redisTtl(after), -1)
     IN rate' = [after EXCEPT
          !.calls[c] = [pc |-> IF NeedsExpire(current, ttl) THEN "expire"
                                ELSE "done",
                        current |-> current, ttl |-> ttl,
                        admitted |-> Admits(current)],
          !.log = Append(@, [t |-> rate.clock, admitted |-> Admits(current),
                             current |-> current, key |-> rate.dropped])]
  /\ UNCHANGED <<rows, store, events, now, nextId, idLimit, reqs, pg, pure>>

\* await redis.expire(redisKey, this.windowSeconds), then the check
ConsumeExpire(c) ==
  /\ rate.calls[c].pc = "expire"
  /\ rate' = [redisExpire(rate, windowSeconds) EXCEPT !.calls[c].pc = "done"]
  /\ UNCHANGED <<rows, store, events, now, nextId, idLimit, reqs, pg, pure>>

\* no helper function is being applied
NoPure == [fn |-> "", args |-> <<>>, out |-> <<>>]

\* no client is paging
NoPg ==
  [ownerId |-> "", includeDeleted |-> FALSE, limit |-> 0, cursor |-> NoCursor,
   pages |-> <<>>, done |-> TRUE]

Init ==
  /\ pg = NoPg
  /\ rate = NoRate
  /\ pure = NoPure
  /\ rows = EmptyTable
  /\ store = {}
  /\ events = <<>>
  /\ now = 0
  /\ nextId = 1
  /\ idLimit = MaxIds
  /\ reqs = [r \in 1..1 |-> IdleReq]

(***************************************************************************)
(* Time passes on the database server: by a microsecond, or to the next    *)
(* millisecond.                                                            *)
(***************************************************************************)
Tick ==
  /\ \E t \in {now + 1, ((now \div UsPerMs) + 1) * UsPerMs} :
       /\ t \div UsPerMs <= MaxMs
       /\ t % UsPerMs <= MaxSubUs
       /\ now' = t
  /\ UNCHANGED <<rows, store, events, nextId, idLimit, reqs, pg, rate, pure>>

\* publishMediaEvent: redis.publish on the channel of the action.
publishMediaEvent(stream, row, action) ==
  Append(stream, [action |-> action, id |-> row.id, ownerId |-> row.ownerId,
                  storedKey |-> row.storedKey])


\* deleteObject: DeleteObjectCommand removes the key (a missing key is no
\* error in S3).
deleteObject(bucket, key) == bucket \ {key}

\* uploadObject: PutObjectCommand creates or overwrites the key.
uploadObject(bucket, key) == bucket \cup {key}

\* rateLimitMiddleware, seen from the handlers: rateLimiter.consume either
\* admits the request or throws RATE_LIMITED, answered 429 before the
\* handler runs.
\* a middleware that sets the 429 status and still lets the handler run
rateLimitMiddlewareLate(q, admitted) ==
  IF admitted THEN q ELSE [q EXCEPT !.status = 429]

rateLimitMiddleware(q, admitted) ==
  IF admitted THEN q
  ELSE Respond(q, 429, [tag |-> "error", message |-> "Too many requests"])

\* an ownership check that lets every caller through
AuthorizedAnyone(user, row) == TRUE

Authorized(user, row) == row.ownerId = user.id \/ user.role = "ADMIN"

(***************************************************************************)
(* DELETE /media/:id                                                       *)
(***************************************************************************)
StartDelete(r) ==
  /\ Free(r)
  /\ \E u \in Callers, id \in Ids, purge \in BOOLEAN, admitted \in BOOLEAN :
       reqs' = [reqs EXCEPT ![r] =
                  rateLimitMiddleware(
                    [IdleReq EXCEPT !.kind = "delete", !.pc = "get",
                                    !.user = u, !.id = id, !.flag = purge],
                    admitted)]
  /\ UNCHANGED <<rows, store, events, now, nextId, idLimit, pg, rate, pure>>

\* const target = await db.getMediaObjectById(req.params.id)
DeleteGet(r) ==
  LET q == reqs[r] IN
  /\ q.kind = "delete" /\ q.pc = "get"
  /\ \E ok \in BOOLEAN :
       LET target == getMediaObjectById(rows, q.id)
           c == Call(q, "getMediaObjectById", q.id, ok,
                     IF ok THEN target ELSE NoRow)
       IN reqs' = [reqs EXCEPT ![r] =
            IF ~ok THEN errorHandler(c, 0, "database error")
            ELSE IF target = NoRow
              THEN Respond(c, 404, [tag |-> "error", message |-> "Not found"])
            ELSE IF ~Authorized(q.user, target)
              THEN Respond(c, 403, [tag |-> "error", message |-> "Forbidden"])
            ELSE [c EXCEPT !.target = target, !.pc = "soft"]]
  /\ UNCHANGED <<rows, store, events, now, nextId, idLimit, pg, rate, pure>>

\* a handler that goes on to deleteObject whatever the purge flag
DeleteAfterPublishPurging(q) == [q EXCEPT !.pc = "purge"]

\* after the publish (or when nothing was soft-deleted): the purge flag
DeleteAfterPublish(q) ==
  IF q.flag THEN [q EXCEPT !.pc = "purge"]
  ELSE Respond(q, 200, [tag |-> "message", message |-> "Deleted"])

\* const deleted = await db.softDeleteMediaObject(target.id)
DeleteSoft(r) ==
  LET q == reqs[r] IN
  /\ q.kind = "delete" /\ q.pc = "soft"
  /\ \E ok \in BOOLEAN :
       LET deleted == softDeleteMediaObject(rows, q.target.id, now)
           c == Call(q, "softDeleteMediaObject", q.target.id, ok,
                     IF ok THEN deleted ELSE NoRow)
       IN IF ~ok
            THEN /\ reqs' = [reqs EXCEPT ![r] = errorHandler(c, 0, "database error")]
                 /\ rows' = rows
            ELSE /\ rows' = softDeleteTable(rows, q.target.id, now)
                 /\ reqs' = [reqs EXCEPT ![r] =
                      IF deleted # NoRow
                        THEN [c EXCEPT !.deleted = deleted, !.pc = "publish"]
                        ELSE DeleteAfterPublish(c)]
  /\ UNCHANGED <<store, events, now, nextId, idLimit, pg, rate, pure>>

\* if (deleted) await publishMediaEvent({ ..., action: 'deleted' })
DeletePublish(r) ==
  LET q == reqs[r] IN
  /\ q.kind = "delete" /\ q.pc = "publish"
  /\ Len(events) < MaxEvents
  /\ \E ok \in BOOLEAN :
       LET c == Call(q, "publishMediaEvent", q.deleted.id, ok, NoRow) IN
       IF ~ok
         THEN /\ reqs' = [reqs EXCEPT ![r] = errorHandler(c, 0, "publish error")]
              /\ events' = events
         ELSE /\ events' = publishMediaEvent(events, q.deleted, "deleted")
              /\ reqs' = [reqs EXCEPT ![r] = DeleteAfterPublish(c)]
  /\ UNCHANGED <<rows, store, now, nextId, idLimit, pg, rate, pure>>

\* if (purge === 'true') await deleteObject(target.storedKey)
DeletePurge(r) ==
  LET q == reqs[r] IN
  /\ q.kind = "delete" /\ q.pc = "purge"
  /\ \E ok \in BOOLEAN :
       LET c == Call(q, "deleteObject", q.target.id, ok, NoRow) IN
       IF ~ok
         THEN /\ reqs' = [reqs EXCEPT ![r] = errorHandler(c, 0, "storage error")]
              /\ store' = store
         ELSE /\ store' = deleteObject(store, q.target.storedKey)
              /\ reqs' = [reqs EXCEPT ![r] =
                   Respond(c, 200, [tag |-> "message", message |-> "Deleted"])]
  /\ UNCHANGED <<rows, events, now, nextId, idLimit, pg, rate, pure>>


(***************************************************************************)
(* URL synthesis (buildDownloadUrl, storage.ts).  The default              *)
(* configuration: PUBLIC_READ false, no CDN_BASE_URL, so every download    *)
(* URL is a freshly signed GET URL for the key.                            *)
(***************************************************************************)
publicRead == FALSE
cdnBaseUrl == ""

NoUrl == [mode |-> "none", key |-> NoKey]

buildPublicUrl(key) == [mode |-> "public", key |-> key]

generatePresignedDownloadUrl(key) == [mode |-> "signedGet", key |-> key]

generatePresignedUploadUrl(key) == [mode |-> "signedPut", key |-> key]

buildDownloadUrl(key) ==
  IF publicRead /\ cdnBaseUrl # "" THEN buildPublicUrl(key)
  ELSE generatePresignedDownloadUrl(key)

\* buildDownloadUrl can reject only when it signs
CanFailUrl == ~(publicRead /\ cdnBaseUrl # "")

(***************************************************************************)
(* POST /media/upload                                                      *)
(***************************************************************************)
\* The multipart files a client sends: an image, a file of a type outside
\* the allow-list, and a file typed as an image that sharp cannot decode.
\* multer sets fieldname to the form field the file came in.
FileKinds ==
  { [originalname |-> "a.png", mimetype |-> "image/png", decodable |-> TRUE,
     rawExt |-> "png", size |-> 3, width |-> 2, height |-> 1,
     fieldname |-> ""],
    [originalname |-> "b.txt", mimetype |-> "text/plain", decodable |-> FALSE,
     rawExt |-> "txt", size |-> 1, width |-> 0, height |-> 0,
     fieldname |-> ""],
    [originalname |-> "c.png", mimetype |-> "image/png", decodable |-> FALSE,
     rawExt |-> "png", size |-> 1, width |-> 0, height |-> 0,
     fieldname |-> ""] }

SeqsUpTo(S, n) == UNION {[1..k -> S] : k \in 0..n}

\* ids the uploads in flight will still draw from uuid()
RECURSIVE PendingIds(_)
PendingIds(S) ==
  IF S = {} THEN 0
  ELSE LET r == CHOOSE x \in S : TRUE
           q == reqs[r]
           mine == IF q.kind = "upload" /\ q.pc # "done"
                     THEN Len(q.files) - q.idx
                          + (IF q.pc = "validate" THEN 1 ELSE 0)
                     ELSE 0
       IN mine + PendingIds(S \ {r})

FreeIds == idLimit - (nextId - 1) - PendingIds(ReqIds)

\* a batch-level error that names the last failure instead of the first
UploadResponseLastMessage(q) ==
  IF Len(q.items) = 0
    THEN Respond(q, 400, [tag |-> "batchError",
                          message |-> IF Len(q.failed) > 0
                                        THEN q.failed[Len(q.failed)].message
                                        ELSE "Upload failed",
                          failed |-> q.failed])
  ELSE IF Len(q.items) = 1 /\ Len(q.failed) = 0
    THEN Respond(q, 201, [tag |-> "single", item |-> q.items[1]])
  ELSE Respond(q, 201, [tag |-> "batch", items |-> q.items,
                        failed |-> q.failed])

\* the response once the loop over the files has ended
UploadResponse(q) ==
  IF Len(q.items) = 0
    THEN Respond(q, 400, [tag |-> "batchError",
                          message |-> IF Len(q.failed) > 0
                                        THEN q.failed[1].message
                                        ELSE "Upload failed",
                          failed |-> q.failed])
  ELSE IF Len(q.items) = 1 /\ Len(q.failed) = 0
    THEN Respond(q, 201, [tag |-> "single", item |-> q.items[1]])
  ELSE Respond(q, 201, [tag |-> "batch", items |-> q.items,
                        failed |-> q.failed])

\* the end of one iteration of  for (const file of files)
UploadNext(q) ==
  IF q.idx < Len(q.files)
    THEN [q EXCEPT !.idx = @ + 1, !.pc = "validate", !.cur = NoCur]
    ELSE UploadResponse([q EXCEPT !.cur = NoCur])

\* a loop without the per-file catch: the error ends the request in the
\* error handler
UploadCatchAbort(q, message) == errorHandler(q, 0, message)

\* a catch that puts the failure at the head of the list
UploadCatchUnshift(q, message) ==
  UploadNext([q EXCEPT !.failed =
    <<[fileName |-> q.files[q.idx].originalname, message |-> message]>> \o @])

\* catch (error) { failed.push({ fileName, message }) }
UploadCatch(q, message) ==
  UploadNext([q EXCEPT !.failed =
    Append(@, [fileName |-> q.files[q.idx].originalname,
               message |-> message])])

\* the batches a client sends: field `file` first, then field `files`
Batches ==
  {[i \in 1..Len(file) |-> [file[i] EXCEPT !.fieldname = "file"]]
     \o [i \in 1..Len(files) |-> [files[i] EXCEPT !.fieldname = "files"]] :
     file \in SeqsUpTo(FileKinds, Min(FileMaxCount, MaxBatch)),
     files \in SeqsUpTo(FileKinds, Min(FilesMaxCount, MaxBatch))}

\* how the middleware chain ahead of the handler ends
UploadGates == {"ok", "RATE_LIMITED", "LIMIT_FILE_SIZE", "LIMIT_UNEXPECTED_FILE"}

StartUpload(r) ==
  /\ Free(r)
  /\ \E u \in Callers, gate \in UploadGates :
     \E all \in IF gate = "ok"
                 THEN {b \in Batches : Len(b) <= MaxBatch /\ Len(b) <= FreeIds}
                 ELSE {<<>>} :
       LET q == [IdleReq EXCEPT !.kind = "upload", !.user = u, !.files = all]
       IN reqs' = [reqs EXCEPT ![r] =
            IF gate = "RATE_LIMITED" THEN rateLimitMiddleware(q, FALSE)
            ELSE IF gate = "LIMIT_FILE_SIZE"
              THEN Respond(q, 413, [tag |-> "error",
                                    message |-> "File exceeds size limit"])
            ELSE IF gate # "ok"
              THEN Respond(q, 400, [tag |-> "error", message |-> gate])
            ELSE IF Len(all) = 0
              THEN Respond(q, 400, [tag |-> "error",
                                    message |-> "file field is required"])
            ELSE [q EXCEPT !.pc = "validate", !.idx = 1]]
  /\ UNCHANGED <<rows, store, events, now, nextId, idLimit, pg, rate, pure>>

\* assertMimeType(file.mimetype); await sharp(file.buffer).metadata();
\* const id = uuid(); ... const key = buildObjectKey(req.user.id, id, ext)
UploadValidate(r) ==
  LET q == reqs[r]
      file == q.files[q.idx]
  IN
  /\ q.kind = "upload" /\ q.pc = "validate"
  /\ IF ~assertMimeType(file.mimetype)
       THEN /\ reqs' = [reqs EXCEPT ![r] =
                 UploadCatch(Call(q, "assertMimeType", NoId, FALSE, NoRow),
                             "Unsupported mime type")]
            /\ nextId' = nextId
     ELSE IF ~file.decodable
       THEN /\ reqs' = [reqs EXCEPT ![r] =
                 UploadCatch(Call(q, "sharp", NoId, FALSE, NoRow),
                             "Invalid image file")]
            /\ nextId' = nextId
     ELSE /\ nextId <= idLimit
          /\ nextId' = nextId + 1
          /\ reqs' = [reqs EXCEPT ![r] =
               [Call(q, "sharp", NoId, TRUE, NoRow) EXCEPT !.pc = "put",
                  !.cur = [id |-> nextId,
                           key |-> buildObjectKey(q.user.id, nextId,
                                     extensionFrom(file.mimetype, file.rawExt))]]]
  /\ UNCHANGED <<rows, store, events, now, idLimit, pg, rate, pure>>

\* a handler that swallows a rejected uploadObject goes on to the metadata
\* row
UploadAfterPutIgnore(c, ok) == [c EXCEPT !.pc = "create"]

\* a handler that tries a rejected uploadObject again
UploadAfterPutRetry(c, ok) == [c EXCEPT !.pc = IF ok THEN "create" ELSE "put"]

\* a rejected uploadObject throws into the catch of the file
UploadAfterPut(c, ok) ==
  IF ok THEN [c EXCEPT !.pc = "create"] ELSE UploadCatch(c, "storage error")

\* await uploadObject({ key, body, ... })
UploadPut(r) ==
  LET q == reqs[r] IN
  /\ q.kind = "upload" /\ q.pc = "put"
  /\ \E ok \in BOOLEAN :
       LET c == Call(q, "uploadObject", q.cur.id, ok, NoRow) IN
       /\ store' = IF ok THEN uploadObject(store, q.cur.key) ELSE store
       /\ reqs' = [reqs EXCEPT ![r] = UploadAfterPut(c, ok)]
  /\ UNCHANGED <<rows, events, now, nextId, idLimit, pg, rate, pure>>

\* const record = await db.createMediaObject({ id, ownerId, ..., storedKey })
UploadCreate(r) ==
  LET q == reqs[r]
      file == q.files[q.idx]
      input == [id |-> q.cur.id, ownerId |-> q.user.id,
                originalName |-> file.originalname, storedKey |-> q.cur.key,
                mimeType |-> file.mimetype, sizeBytes |-> file.size,
                width |-> file.width, height |-> file.height]
  IN
  /\ q.kind = "upload" /\ q.pc = "create"
  /\ \E ok \in BOOLEAN :
       LET c == Call(q, "createMediaObject", q.cur.id, ok,
                     IF ok THEN createMediaObject(rows, input, now) ELSE NoRow) IN
       IF ~ok
         THEN /\ rows' = rows
              /\ reqs' = [reqs EXCEPT ![r] = UploadCatch(c, "database error")]
         ELSE /\ rows' = createTable(rows, input, now)
              /\ reqs' = [reqs EXCEPT ![r] =
                   [c EXCEPT !.pc = "publish",
                             !.target = createMediaObject(rows, input, now)]]
  /\ UNCHANGED <<store, events, now, nextId, idLimit, pg, rate, pure>>

\* await publishMediaEvent({ id: record.id, ..., action: 'uploaded' })
\* The call sits inside the try block of the file: a rejected publish is
\* caught as a failure of the file.
UploadPublish(r) ==
  LET q == reqs[r] IN
  /\ q.kind = "upload" /\ q.pc = "publish"
  /\ Len(events) < MaxEvents
  /\ \E ok \in BOOLEAN :
       LET c == Call(q, "publishMediaEvent", q.cur.id, ok, NoRow) IN
       IF ~ok
         THEN /\ events' = events
              /\ reqs' = [reqs EXCEPT ![r] = UploadCatch(c, "publish error")]
         ELSE /\ events' = publishMediaEvent(events, q.target, "uploaded")
              /\ reqs' = [reqs EXCEPT ![r] = [c EXCEPT !.pc = "url"]]
  /\ UNCHANGED <<rows, store, now, nextId, idLimit, pg, rate, pure>>

\* const downloadUrl = await buildDownloadUrl(record.storedKey, ...)
\* items.push({ ...record, url: downloadUrl })
UploadUrl(r) ==
  LET q == reqs[r] IN
  /\ q.kind = "upload" /\ q.pc = "url"
  /\ \E ok \in {TRUE} \cup {~CanFailUrl} :
       LET c == Call(q, "buildDownloadUrl", q.cur.id, ok, NoRow) IN
       reqs' = [reqs EXCEPT ![r] =
         IF ~ok THEN UploadCatch(c, "sign error")
         ELSE UploadNext([c EXCEPT !.items =
                Append(@, [record |-> q.target,
                           url |-> buildDownloadUrl(q.target.storedKey)])])]
  /\ UNCHANGED <<rows, store, events, now, nextId, idLimit, pg, rate, pure>>


(***************************************************************************)
(* db.listMediaObjects: keyset pagination on uploaded_at.                  *)
(***************************************************************************)
\* Date.prototype.toISOString of a JS Date, as new Date() reads it back
toISOString(jsDate) == DateCursor(jsDate)

\* WHERE status = 'ACTIVE' AND owner_id = $1 AND uploaded_at < $2
\* (each condition only when its parameter is given; ownerId "" stands for
\* undefined).  The cursor is bound as a Date: a whole millisecond.
ListWhere(table, ownerId, cursor, includeDeleted) ==
  {id \in DOMAIN table :
     /\ includeDeleted \/ table[id].status = "ACTIVE"
     /\ ownerId = "" \/ table[id].ownerId = ownerId
     /\ cursor.kind = "none" \/ table[id].uploadedAt < cursor.ms * UsPerMs}

\* ORDER BY uploaded_at DESC: every order of the matching ids that is
\* non-increasing in uploaded_at (SQL leaves the order of ties open).
DescOrders(table, S) ==
  {f \in [1..Cardinality(S) -> S] :
     \A i, j \in 1..Cardinality(S) :
       i < j => f[i] # f[j] /\ table[f[i]].uploadedAt >= table[f[j]].uploadedAt}

\* LIMIT limit + 1, then the split into the page and the next cursor
listMediaObjects(table, limit, ord) ==
  LET fetched == [i \in 1..Min(Len(ord), limit + 1) |-> mapRow(table[ord[i]])]
  IN IF Len(fetched) > limit
       THEN [items |-> SubSeq(fetched, 1, limit),
             nextCursor |-> toISOString(fetched[limit + 1].uploadedAt)]
       ELSE [items |-> fetched, nextCursor |-> NoCursor]

MaxLimit == 1      \* largest ?limit= a client asks for
LimitMin == 1      \* listSchema: limit min(1)
LimitMax == 50     \* listSchema: limit max(50)

Cursors == {NoCursor, InvalidCursor} \cup {DateCursor(ms) : ms \in 0..(MaxMs + 1)}

Queries == [limit : 0..MaxLimit, cursor : Cursors, scope : {"self", "all"}]

(***************************************************************************)
(* GET /media                                                              *)
(***************************************************************************)
\* a listing that takes scope=all at its word for every caller
ListOwnerIdNoDowngrade(user, scope) == IF scope = "self" THEN user.id ELSE ""

ListOwnerId(user, scope) ==
  IF scope = "self" THEN user.id
  ELSE IF user.role = "ADMIN" THEN "" ELSE user.id

\* a listing that shows soft-deleted records to every caller of scope=all
ListIncludeDeletedAnyRole(user, scope) == scope = "all"

ListIncludeDeleted(user, scope) == scope = "all" /\ user.role = "ADMIN"

\* item.status === 'ACTIVE' ? await buildDownloadUrl(...) : null
ItemUrl(item) ==
  IF item.status = "ACTIVE" THEN buildDownloadUrl(item.storedKey) ELSE NoUrl

\* listSchema.safeParse(req.query)
ListParses(query) == query.limit >= LimitMin /\ query.limit <= LimitMax

\* the collaborator failures a request can meet
ListFaults(query) ==
  IF ListParses(query) /\ query.cursor.kind # "invalid"
    THEN {"none", "db", "sign"} ELSE {"none"}

ListMedia(r) ==
  /\ Free(r)
  /\ \E u \in Callers, query \in Queries :
     \E fault \in ListFaults(query) :
       LET q == [IdleReq EXCEPT !.kind = "list", !.user = u, !.query = query]
           ownerId == ListOwnerId(u, query.scope)
           includeDeleted == ListIncludeDeleted(u, query.scope)
       IN \E ord \in DescOrders(rows, ListWhere(rows, ownerId, query.cursor,
                                                includeDeleted)) :
            LET result == listMediaObjects(rows, query.limit, ord)
                signs == \E i \in 1..Len(result.items) :
                           result.items[i].status = "ACTIVE" /\ CanFailUrl
            IN /\ fault = "sign" => signs
               /\ reqs' = [reqs EXCEPT ![r] =
                    IF ~ListParses(query)
                      THEN Respond(q, 400, [tag |-> "error",
                                            message |-> "invalid query"])
                    ELSE IF query.cursor.kind = "invalid"
                      THEN errorHandler(q, 0, "Invalid cursor")
                    ELSE IF fault = "db"
                      THEN errorHandler(q, 0, "database error")
                    ELSE IF fault = "sign"
                      THEN errorHandler(q, 0, "sign error")
                    ELSE Respond(q, 200,
                           [tag |-> "list",
                            items |-> [i \in 1..Len(result.items) |->
                                         [record |-> result.items[i],
                                          url |-> ItemUrl(result.items[i])]],
                            nextCursor |-> result.nextCursor])]
  /\ UNCHANGED <<rows, store, events, now, nextId, idLimit, pg, rate, pure>>

(***************************************************************************)
(* GET /media/:id                                                          *)
(***************************************************************************)
GetMedia(r) ==
  /\ Free(r)
  /\ \E u \in Callers, id \in Ids, includePresign \in BOOLEAN,
        fault \in {"none", "db", "sign"} :
       LET q == [IdleReq EXCEPT !.kind = "get", !.user = u, !.id = id,
                                !.flag = includePresign]
           media == getMediaObjectById(rows, id)
           signs == /\ media # NoRow /\ Authorized(u, media)
                    /\ includePresign \/ (media.status = "ACTIVE" /\ CanFailUrl)
       IN /\ fault = "sign" => signs
          /\ reqs' = [reqs EXCEPT ![r] =
               IF fault = "db" THEN errorHandler(q, 0, "database error")
               ELSE IF media = NoRow
                 THEN Respond(q, 404, [tag |-> "error", message |-> "Not found"])
               ELSE IF ~Authorized(u, media)
                 THEN Respond(q, 403, [tag |-> "error", message |-> "Forbidden"])
               ELSE IF fault = "sign"
                 THEN errorHandler(q, 0, "sign error")
               ELSE Respond(q, 200,
                      [tag |-> "media", record |-> media,
                       url |-> ItemUrl(media),
                       presignedUrl |->
                         IF includePresign
                           THEN generatePresignedDownloadUrl(media.storedKey)
                           ELSE NoUrl])]
  /\ UNCHANGED <<rows, store, events, now, nextId, idLimit, pg, rate, pure>>

(***************************************************************************)
(* POST /media/presign                                                     *)
(***************************************************************************)
maxUploadBytes == 10485760   \* MAX_UPLOAD_BYTES default, 10 * 1024 * 1024

\* request bodies: one that presignSchema rejects, a type outside the
\* allow-list, and declared sizes at and past the ceiling
PresignBodies ==
  { [valid |-> FALSE, mimeType |-> "", sizeBytes |-> 0, rawExt |-> ""],
    [valid |-> TRUE, mimeType |-> "text/plain", sizeBytes |-> 1, rawExt |-> "txt"],
    [valid |-> TRUE, mimeType |-> "image/png", sizeBytes |-> maxUploadBytes,
     rawExt |-> "png"],
    [valid |-> TRUE, mimeType |-> "image/png", sizeBytes |-> maxUploadBytes + 1,
     rawExt |-> "png"] }

\* a check that turns away a size at the ceiling too
exceedsSizeLimitAtCeiling(sizeBytes) == sizeBytes >= maxUploadBytes

\* if (parsed.data.sizeBytes > config.maxUploadBytes)
exceedsSizeLimit(sizeBytes) == sizeBytes > maxUploadBytes

PresignAccepts(body) ==
  /\ body.valid
  /\ assertMimeType(body.mimeType)
  /\ ~exceedsSizeLimit(body.sizeBytes)

\* a handler that asks for the signed URL again when the first call
\* resolved
PresignSignTwice(q, id, ok) ==
  IF ok
    THEN Call(Call(q, "generatePresignedUploadUrl", id, TRUE, NoRow),
              "generatePresignedUploadUrl", id, TRUE, NoRow)
    ELSE Call(q, "generatePresignedUploadUrl", id, FALSE, NoRow)

\* const uploadUrl = await generatePresignedUploadUrl({ key, ... })
PresignSign(q, id, ok) ==
  Call(q, "generatePresignedUploadUrl", id, ok, NoRow)

Presign(r) ==
  /\ Free(r)
  /\ \E u \in Callers, admitted \in BOOLEAN :
     \E body \in IF admitted THEN PresignBodies ELSE {NoQuery} :
     \E signOk \in IF admitted /\ PresignAccepts(body) THEN BOOLEAN ELSE {TRUE} :
       LET q == [IdleReq EXCEPT !.kind = "presign", !.user = u, !.query = body]
           accepted == admitted /\ PresignAccepts(body)
           key == buildObjectKey(u.id, nextId,
                                 extensionFrom(body.mimeType, body.rawExt))
       IN /\ accepted => FreeIds >= 1
          /\ nextId' = IF accepted THEN nextId + 1 ELSE nextId
          /\ reqs' = [reqs EXCEPT ![r] =
               IF ~admitted THEN rateLimitMiddleware(q, FALSE)
               ELSE IF ~body.valid
                 THEN Respond(q, 400, [tag |-> "error", message |-> "invalid body"])
               ELSE IF ~assertMimeType(body.mimeType)
                 THEN errorHandler(q, 400, "Unsupported mime type")
               ELSE IF exceedsSizeLimit(body.sizeBytes)
                 THEN Respond(q, 400, [tag |-> "error",
                                       message |-> "File exceeds size limit"])
               ELSE IF ~signOk
                 THEN errorHandler(PresignSign(q, nextId, FALSE), 0, "sign error")
               ELSE Respond(PresignSign(q, nextId, TRUE), 201,
                      [tag |-> "presign", id |-> nextId,
                       uploadUrl |-> generatePresignedUploadUrl(key),
                       key |-> key])]
  /\ UNCHANGED <<rows, store, events, now, idLimit, pg, rate, pure>>

(***************************************************************************)
(* The service serving one request at a time on every endpoint.            *)
(***************************************************************************)
Next ==
  \/ Tick
  \/ \E r \in ReqIds : StartUpload(r)
  \/ \E r \in ReqIds : UploadValidate(r)
  \/ \E r \in ReqIds : UploadPut(r)
  \/ \E r \in ReqIds : UploadCreate(r)
  \/ \E r \in ReqIds : UploadPublish(r)
  \/ \E r \in ReqIds : UploadUrl(r)
  \/ \E r \in ReqIds : Presign(r)
  \/ \E r \in ReqIds : ListMedia(r)
  \/ \E r \in ReqIds : GetMedia(r)
  \/ \E r \in ReqIds : StartDelete(r)
  \/ \E r \in ReqIds : DeleteGet(r)
  \/ \E r \in ReqIds : DeleteSoft(r)
  \/ \E r \in ReqIds : DeletePublish(r)
  \/ \E r \in ReqIds : DeletePurge(r)

Spec == Init /\ [][Next]_vars

(***************************************************************************)
(* The upload endpoint alone, with ids enough for whole batches.           *)
(***************************************************************************)
InitUpload ==
  /\ pg = NoPg
  /\ rate = NoRate
  /\ pure = NoPure
  /\ rows = EmptyTable
  /\ store = {}
  /\ events = <<>>
  /\ now = 0
  /\ nextId = 1
  /\ idLimit = MaxUploadIds
  /\ reqs = [r \in 1..1 |-> IdleReq]

NextUpload ==
  \/ Tick
  \/ \E r \in ReqIds : StartUpload(r)
  \/ \E r \in ReqIds : UploadValidate(r)
  \/ \E r \in ReqIds : UploadPut(r)
  \/ \E r \in ReqIds : UploadCreate(r)
  \/ \E r \in ReqIds : UploadPublish(r)
  \/ \E r \in ReqIds : UploadUrl(r)

SpecUpload == InitUpload /\ [][NextUpload]_vars

(***************************************************************************)
(* Concurrent DELETE requests: MaxReqs requests in flight, interleaved at  *)
(* every await.  They start in the state that one upload of a.png by u1    *)
(* leaves behind: the object stored, its row ACTIVE, its event published.  *)
(***************************************************************************)
UploadedInput ==
  [id |-> 1, ownerId |-> "u1", originalName |-> "a.png",
   storedKey |-> buildObjectKey("u1", 1, extensionFrom("image/png", "png")),
   mimeType |-> "image/png", sizeBytes |-> 3, width |-> 2, height |-> 1]

InitDelete ==
  /\ pg = NoPg
  /\ rate = NoRate
  /\ pure = NoPure
  /\ rows = createTable(EmptyTable, UploadedInput, 0)
  /\ store = uploadObject({}, UploadedInput.storedKey)
  /\ events = publishMediaEvent(<<>>, NewRow(UploadedInput, 0), "uploaded")
  /\ now = 0
  /\ nextId = 2
  /\ idLimit = 1
  /\ reqs = [r \in 1..MaxReqs |-> IdleReq]

NextDelete ==
  \/ Tick
  \/ \E r \in ReqIds : StartDelete(r)
  \/ \E r \in ReqIds : DeleteGet(r)
  \/ \E r \in ReqIds : DeleteSoft(r)
  \/ \E r \in ReqIds : DeletePublish(r)
  \/ \E r \in ReqIds : DeletePurge(r)

SpecDelete == InitDelete /\ [][NextDelete]_vars



(***************************************************************************)
(* A client paging through db.listMediaObjects over a table that does not  *)
(* change meanwhile: it starts without a cursor and follows nextCursor     *)
(* until none is returned.                                                 *)
(***************************************************************************)
MaxListRows == 3    \* rows in the table being paged
MaxListLimit == 2   \* page sizes tried
MaxListSubUs == 1   \* microseconds into a millisecond of the rows' uploaded_at

ListTimes ==
  {ms * UsPerMs + us : ms \in 0..MaxMs, us \in 0..MaxListSubUs}

ListClock == MaxMs * UsPerMs + MaxListSubUs

\* the row that an upload by `owner` at time t creates, soft-deleted or not
ListRow(id, owner, t, deleted) ==
  LET input == [id |-> id, ownerId |-> owner, originalName |-> "a.png",
                storedKey |-> buildObjectKey(owner, id, "png"),
                mimeType |-> "image/png", sizeBytes |-> 3, width |-> 2, height |-> 1]
      table == createTable(EmptyTable, input, t)
  IN IF deleted THEN softDeleteTable(table, id, ListClock)[id] ELSE table[id]

ListTables ==
  UNION { {tb \in [1..n -> UNION {{ListRow(i, o, t, d) : o \in {"u1", "u2"},
                                      t \in ListTimes, d \in BOOLEAN}
                                   : i \in 1..n}] :
             \A i \in 1..n : tb[i].id = i}
          : n \in 0..MaxListRows }

InitList ==
  /\ rate = NoRate
  /\ pure = NoPure
  /\ rows \in ListTables
  /\ store = {rows[i].storedKey : i \in DOMAIN rows}
  /\ events = <<>>
  /\ now = ListClock
  /\ nextId = Cardinality(DOMAIN rows) + 1
  /\ idLimit = Cardinality(DOMAIN rows)
  /\ reqs = [r \in 1..1 |-> IdleReq]
  /\ \E u \in Callers, scope \in {"self", "all"}, limit \in 1..MaxListLimit :
       pg = [ownerId |-> ListOwnerId(u, scope),
             includeDeleted |-> ListIncludeDeleted(u, scope),
             limit |-> limit, cursor |-> NoCursor, pages |-> <<>>,
             done |-> FALSE]

\* one call of db.listMediaObjects with the cursor the last call returned
FollowCursor ==
  /\ ~pg.done
  /\ \E ord \in DescOrders(rows, ListWhere(rows, pg.ownerId, pg.cursor,
                                         pg.includeDeleted)) :
       LET result == listMediaObjects(rows, pg.limit, ord) IN
       pg' = [pg EXCEPT !.pages = Append(@, [i \in 1..Len(result.items) |->
                                               result.items[i].id]),
                        !.cursor = result.nextCursor,
                        !.done = (result.nextCursor = NoCursor)]
  /\ UNCHANGED <<rows, store, events, now, nextId, idLimit, reqs, rate, pure>>

NextList == FollowCursor

SpecList == InitList /\ [][NextList]_vars


(***************************************************************************)
(* db.softDeleteMediaObject called directly, any number of times, with ids *)
(* of the table and with an id it does not hold.                           *)
(***************************************************************************)
InitSoftDelete ==
  /\ pg = NoPg
  /\ rate = NoRate
  /\ pure = NoPure
  /\ \E n \in 0..MaxListRows : \E owner \in [1..n -> {"u1", "u2"}] :
       rows = [i \in 1..n |-> ListRow(i, owner[i], 0, FALSE)]
  /\ store = {rows[i].storedKey : i \in DOMAIN rows}
  /\ events = <<>>
  /\ now = 0
  /\ nextId = Cardinality(DOMAIN rows) + 1
  /\ idLimit = Cardinality(DOMAIN rows)
  /\ reqs = [r \in 1..1 |-> IdleReq]

CallSoftDelete(r) ==
  /\ \E id \in 1..(MaxListRows + 1) :
       /\ rows' = softDeleteTable(rows, id, now)
       /\ reqs' = [reqs EXCEPT ![r] =
            [Call([IdleReq EXCEPT !.kind = "db", !.id = id],
                  "softDeleteMediaObject", id, TRUE,
                  softDeleteMediaObject(rows, id, now))
             EXCEPT !.pc = "done"]]
  /\ UNCHANGED <<store, events, now, nextId, idLimit, pg, rate, pure>>

NextSoftDelete ==
  \/ Tick
  \/ \E r \in ReqIds : CallSoftDelete(r)

SpecSoftDelete == InitSoftDelete /\ [][NextSoftDelete]_vars


(***************************************************************************)
(* GET /media alone, over a table that uploads and deletions of two owners *)
(* have left behind.                                                       *)
(***************************************************************************)
MaxBrowseRows == 2  \* rows in the table being listed

InitBrowse ==
  /\ pg = NoPg
  /\ rate = NoRate
  /\ pure = NoPure
  /\ rows \in {tb \in ListTables : Cardinality(DOMAIN tb) <= MaxBrowseRows}
  /\ store = {rows[i].storedKey : i \in DOMAIN rows}
  /\ events = <<>>
  /\ now = ListClock
  /\ nextId = Cardinality(DOMAIN rows) + 1
  /\ idLimit = Cardinality(DOMAIN rows)
  /\ reqs = [r \in 1..1 |-> IdleReq]

NextBrowse == \E r \in ReqIds : ListMedia(r)

SpecBrowse == InitBrowse /\ [][NextBrowse]_vars

(***************************************************************************)
(* The rate limiter alone: consume calls of one identity, interleaved at   *)
(* their awaits, while time passes in redis.                               *)
(***************************************************************************)
InitRate ==
  /\ pg = NoPg
  /\ rate = NoRate
  /\ pure = NoPure
  /\ rows = EmptyTable
  /\ store = {}
  /\ events = <<>>
  /\ now = 0
  /\ nextId = 1
  /\ idLimit = MaxIds
  /\ reqs = [r \in 1..1 |-> IdleReq]

NextRate ==
  \/ RateTick
  \/ \E c \in 1..MaxConsumers : ConsumeExec(c)
  \/ \E c \in 1..MaxConsumers : ConsumeExpire(c)

SpecRate == InitRate /\ [][NextRate]_vars

(***************************************************************************)
(* buildObjectKey on text.  Elsewhere a key is the record of its parts;    *)
(* here it is the string the template literal builds, a sequence of        *)
(* characters, for owner ids as a header or a token can carry them and     *)
(* ids of the fixed length and alphabet of uuid().                         *)
(***************************************************************************)
MaxOwnerLen == 2   \* owner ids of 1..MaxOwnerLen characters
UuidLen == 2       \* the length of uuid() values
MaxExtLen == 1     \* extensions of 0..MaxExtLen characters

\* `uploads/${userId}/${id}` without the owner part
buildObjectKeyNoOwner(userId, id, extension) ==
  <<"u", "p", "l", "o", "a", "d", "s", "/">> \o id
    \o (IF extension # <<>> THEN <<".">> \o extension ELSE <<>>)

\* const suffix = extension ? `.${extension}` : ''
\* return `uploads/${userId}/${id}${suffix}`
buildObjectKeyText(userId, id, extension) ==
  <<"u", "p", "l", "o", "a", "d", "s", "/">> \o userId \o <<"/">> \o id
    \o (IF extension # <<>> THEN <<".">> \o extension ELSE <<>>)

\* x-user-id or the token's sub: any non-empty text
KeyOwners == SeqsUpTo({"a", "/", "."}, MaxOwnerLen) \ {<<>>}

\* uuid(): hex digits and hyphens, always of the same length
KeyIds == [1..UuidLen -> {"a", "-"}]

\* extensionFrom: lower-case letters and digits, possibly none
KeyExts == SeqsUpTo({"a", "0"}, MaxExtLen)

InitKey ==
  /\ pg = NoPg
  /\ rate = NoRate
  /\ pure \in {[fn |-> "buildObjectKey", args |-> <<a, b>>, out |-> <<>>] :
                 a, b \in [userId : KeyOwners, id : KeyIds,
                           extension : KeyExts]}
  /\ rows = EmptyTable
  /\ store = {}
  /\ events = <<>>
  /\ now = 0
  /\ nextId = 1
  /\ idLimit = MaxIds
  /\ reqs = [r \in 1..1 |-> IdleReq]

\* two calls of buildObjectKey
BuildKeys ==
  /\ pure.fn = "buildObjectKey" /\ pure.out = <<>>
  /\ pure' = [pure EXCEPT !.out =
       [i \in 1..2 |-> buildObjectKeyText(pure.args[i].userId, pure.args[i].id,
                                          pure.args[i].extension)]]
  /\ UNCHANGED <<rows, store, events, now, nextId, idLimit, reqs, pg, rate>>

SpecKey == InitKey /\ [][BuildKeys]_vars

(***************************************************************************)
(* middleware/auth.ts: authMiddleware on the headers of one request, with  *)
(* and without JWT_PUBLIC_KEY configured.                                  *)
(***************************************************************************)
\* a header that was not sent
NoHeader == ""

\* Authorization headers: none, another scheme, Bearer without a token,
\* and Bearer tokens that jwt.verify accepts (with and without a role
\* claim) or rejects
NoToken == [verifies |-> FALSE, sub |-> "", role |-> ""]

Authorizations ==
  { [scheme |-> "", token |-> NoToken],
    [scheme |-> "basic", token |-> [verifies |-> TRUE, sub |-> "u1", role |-> "ADMIN"]],
    [scheme |-> "bearer", token |-> NoToken],
    [scheme |-> "bearer", token |-> [verifies |-> TRUE, sub |-> "u1", role |-> "ADMIN"]],
    [scheme |-> "bearer", token |-> [verifies |-> TRUE, sub |-> "u2", role |-> ""]],
    [scheme |-> "bearer", token |-> [verifies |-> FALSE, sub |-> "u1", role |-> "ADMIN"]] }

AuthRequests ==
  [xUserId : {NoHeader, "u1", "u2"}, xUserRole : {NoHeader, "user", "admin"},
   authorization : Authorizations, publicKey : BOOLEAN]

\* toUpperCase()
toUpperCase(str) ==
  CASE str = "user" -> "USER" [] str = "admin" -> "ADMIN" [] OTHER -> str

\* extractToken: the token of a Bearer header, null otherwise
extractToken(authorization) ==
  IF authorization.scheme # "bearer" \/ authorization.token = NoToken
    THEN NoToken ELSE authorization.token

\* next() with req.user set
AuthNext(user) == [status |-> 0, message |-> "", user |-> user]

\* res.status(401).json({ message })
AuthReject(message) == [status |-> 401, message |-> message, user |-> NoUser]

authMiddleware(req) ==
  LET xUserId == req.xUserId
      xUserRole == IF req.xUserRole = NoHeader THEN "USER" ELSE req.xUserRole
      token == extractToken(req.authorization)
  IN IF xUserId = NoHeader /\ req.publicKey
       THEN IF token = NoToken THEN AuthReject("Missing authorization")
            ELSE IF ~token.verifies THEN AuthReject("Invalid token")
            ELSE AuthNext([id |-> token.sub,
                           role |-> IF token.role = "" THEN "USER"
                                    ELSE token.role])
     ELSE IF xUserId = NoHeader THEN AuthReject("Missing x-user-id header")
     ELSE AuthNext([id |-> xUserId, role |-> toUpperCase(xUserRole)])

InitAuth ==
  /\ pg = NoPg
  /\ rate = NoRate
  /\ pure \in {[fn |-> "authMiddleware", args |-> <<req>>, out |-> <<>>] :
                 req \in AuthRequests}
  /\ rows = EmptyTable
  /\ store = {}
  /\ events = <<>>
  /\ now = 0
  /\ nextId = 1
  /\ idLimit = MaxIds
  /\ reqs = [r \in 1..1 |-> IdleReq]

\* app.use(authMiddleware): the request passes the middleware
Authenticate ==
  /\ pure.fn = "authMiddleware" /\ pure.out = <<>>
  /\ pure' = [pure EXCEPT !.out = <<authMiddleware(pure.args[1])>>]
  /\ UNCHANGED <<rows, store, events, now, nextId, idLimit, reqs, pg, rate>>

SpecAuth == InitAuth /\ [][Authenticate]_vars

(***************************************************************************)
(* File names as text: sequences of characters.  "a" and "A" stand for the *)
(* ASCII letters, "0" for the digits, " " for ASCII outside \w . and -,    *)
(* "e'" for a precomposed accented letter, "'" for its combining mark.     *)
(***************************************************************************)
MaxNameLen == 3       \* short names of 0..MaxNameLen characters
MaxAffixLen == 1      \* what stands before and after the run of a long name
SliceLen == 180       \* `${fileBase}${safeExt}`.slice(0, 180)

NameChars == {"a", "A", "_", ".", " ", "e'", "/"}

Fill(c, n) == [i \in 1..n |-> c]

\* short names, and names with a run that brings them to just under and
\* just over SliceLen
FallbackNames ==
  SeqsUpTo(NameChars, MaxNameLen)
    \cup {h \o Fill(c, n) \o t :
            h \in SeqsUpTo(NameChars, MaxAffixLen),
            t \in SeqsUpTo(NameChars, MaxAffixLen),
            c \in {"a", " "}, n \in {SliceLen - 3, SliceLen + 1}}

\* the indices of str that hold c
IndicesOf(str, c) == {i \in DOMAIN str : str[i] = c}

SetMax(S) == CHOOSE x \in S : \A y \in S : y <= x

SetMin(S) == CHOOSE x \in S : \A y \in S : x <= y

\* the part of a path that path.basename and path.extname work on: what
\* follows the last slash, trailing slashes dropped
LastPart(p) ==
  LET ends == DOMAIN p \ IndicesOf(p, "/")
      end == IF ends = {} THEN 0 ELSE SetMax(ends)
      seps == {i \in IndicesOf(p, "/") : i < end}
      start == IF seps = {} THEN 1 ELSE SetMax(seps) + 1
  IN SubSeq(p, start, end)

\* path.extname: from the last dot of the last part; empty when there is
\* no dot, when the dot leads the part, and for ".."
extname(p) ==
  LET b == LastPart(p)
      dots == IndicesOf(b, ".")
  IN IF dots = {} \/ SetMax(dots) = 1 \/ b = <<".", ".">> THEN <<>>
     ELSE SubSeq(b, SetMax(dots), Len(b))

\* path.basename(p, ext) for ext = path.extname(p): the last part without it
basename(p, ext) ==
  LET b == LastPart(p) IN SubSeq(b, 1, Len(b) - Len(ext))

\* toLowerCase()
toLowerCaseChar(c) == IF c = "A" THEN "a" ELSE c

\* [a-z0-9]
IsLowerAlnum(c) == c \in {"a", "0"}

\* [a-z0-9] under the i flag
IsAlnum(c) == c \in {"a", "A", "0"}

\* [\w.\-]
IsWordDotDash(c) == IsAlnum(c) \/ c \in {"_", ".", "-"}

\* extensionFrom for a type outside byMime:
\* path.extname(fileName).toLowerCase().slice(1).replace(/[^a-z0-9]+/g, '')
extensionFromName(fileName) ==
  LET ext == extname(fileName)
      rawExt == [i \in 1..(Len(ext) - 1) |-> toLowerCaseChar(ext[i + 1])]
  IN SelectSeq(rawExt, IsLowerAlnum)

\* normalize('NFKD'): a precomposed letter becomes letter and mark
IsChar(c) == c # ""

normalizeNFKD(str) ==
  SelectSeq([j \in 1..(2 * Len(str)) |->
               LET c == str[(j + 1) \div 2] IN
               IF j % 2 = 1 THEN (IF c = "e'" THEN "a" ELSE c)
               ELSE (IF c = "e'" THEN "'" ELSE "")],
            IsChar)

\* replace(/[^\w.\-]+/g, '_'): every run of other characters becomes one _
replaceOthers(str) ==
  SelectSeq([i \in DOMAIN str |->
               IF IsWordDotDash(str[i]) THEN str[i]
               ELSE IF i > 1 /\ ~IsWordDotDash(str[i - 1]) THEN ""
               ELSE "_"],
            IsChar)

\* replace(/^_+|_+$/g, '')
trimUnderscores(str) ==
  LET rest == DOMAIN str \ IndicesOf(str, "_")
  IN IF rest = {} THEN <<>> ELSE SubSeq(str, SetMin(rest), SetMax(rest))

\* a base that is used as it is, even empty or without letter or digit
fileBaseAsIs(normalizedBase) == normalizedBase

\* normalizedBase && /[a-z0-9]/i.test(normalizedBase) ? normalizedBase : 'file'
fileBaseOf(normalizedBase) ==
  IF normalizedBase # <<>> /\ \E i \in DOMAIN normalizedBase :
                                IsAlnum(normalizedBase[i])
    THEN normalizedBase ELSE <<"a", "a", "a", "a">>

buildAsciiFallbackFilename(originalName, extension) ==
  LET base == basename(originalName, extname(originalName))
      normalizedBase ==
        trimUnderscores(replaceOthers(normalizeNFKD(base)))
      fileBase == fileBaseOf(normalizedBase)
      safeExt == IF extension # <<>> THEN <<".">> \o extension ELSE <<>>
      whole == fileBase \o safeExt
  IN SubSeq(whole, 1, Min(Len(whole), SliceLen))

\* a name with the extension buildDownloadUrl infers from it, with one of
\* byMime, and with none
InitFallback ==
  /\ pg = NoPg
  /\ rate = NoRate
  /\ pure \in {[fn |-> "buildAsciiFallbackFilename", args |-> <<name, ext>>,
                out |-> <<>>] :
                 name \in FallbackNames, ext \in {<<>>, <<"a", "a", "a">>}}
           \cup {[fn |-> "buildAsciiFallbackFilename",
                  args |-> <<name, extensionFromName(name)>>, out |-> <<>>] :
                 name \in FallbackNames}
  /\ rows = EmptyTable
  /\ store = {}
  /\ events = <<>>
  /\ now = 0
  /\ nextId = 1
  /\ idLimit = MaxIds
  /\ reqs = [r \in 1..1 |-> IdleReq]

BuildFallback ==
  /\ pure.fn = "buildAsciiFallbackFilename" /\ pure.out = <<>>
  /\ pure' = [pure EXCEPT !.out =
                <<buildAsciiFallbackFilename(pure.args[1], pure.args[2])>>]
  /\ UNCHANGED <<rows, store, events, now, nextId, idLimit, reqs, pg, rate>>

SpecFallback == InitFallback /\ [][BuildFallback]_vars

(***************************************************************************)
(* normalizeUploadFilename.  Text is a sequence of code points; a name     *)
(* reaches the handler either decoded as the UTF-8 the client sent, or     *)
(* with every byte of that UTF-8 read as one Latin-1 character.            *)
(***************************************************************************)
MaxTextLen == 3   \* names of 0..MaxTextLen characters

ReplacementChar == 65533   \* U+FFFD

\* A . and two letters of more than one byte in UTF-8: U+00E9 and U+4E2D;
\* and U+00C3 U+00A9, the Latin-1 reading of the bytes of U+00E9
CodePoints == {65, 46, 233, 20013, 195, 169}

\* the bytes of one code point in UTF-8
utf8EncodeChar(cp) ==
  IF cp < 128 THEN <<cp>>
  ELSE IF cp < 2048 THEN <<192 + (cp \div 64), 128 + (cp % 64)>>
  ELSE IF cp < 65536
    THEN <<224 + (cp \div 4096), 128 + ((cp \div 64) % 64), 128 + (cp % 64)>>
  ELSE <<240 + (cp \div 262144), 128 + ((cp \div 4096) % 64),
         128 + ((cp \div 64) % 64), 128 + (cp % 64)>>

RECURSIVE utf8Encode(_)
utf8Encode(text) ==
  IF text = <<>> THEN <<>>
  ELSE utf8EncodeChar(Head(text)) \o utf8Encode(Tail(text))

\* the continuation bytes a lead byte asks for, and the range of the
\* first of them
Utf8Need(lead) ==
  IF lead >= 194 /\ lead <= 223 THEN 1
  ELSE IF lead >= 224 /\ lead <= 239 THEN 2
  ELSE IF lead >= 240 /\ lead <= 244 THEN 3
  ELSE 0

Utf8Lower(lead) == IF lead = 224 THEN 160 ELSE IF lead = 240 THEN 144 ELSE 128

Utf8Upper(lead) == IF lead = 237 THEN 159 ELSE IF lead = 244 THEN 143 ELSE 191

\* how many of the bytes after position i continue the sequence led by
\* bytes[i]
Utf8Continues(bytes, i) ==
  LET lead == bytes[i]
      Fits(k) == /\ i + k <= Len(bytes)
                 /\ bytes[i + k] >= (IF k = 1 THEN Utf8Lower(lead) ELSE 128)
                 /\ bytes[i + k] <= (IF k = 1 THEN Utf8Upper(lead) ELSE 191)
      good == {n \in 0..Utf8Need(lead) : \A k \in 1..n : Fits(k)}
  IN SetMax(good)

Utf8Value(bytes, i, need) ==
  LET lead == bytes[i] IN
  CASE need = 1 -> (lead - 192) * 64 + (bytes[i + 1] - 128)
    [] need = 2 -> (lead - 224) * 4096 + (bytes[i + 1] - 128) * 64
                     + (bytes[i + 2] - 128)
    [] need = 3 -> (lead - 240) * 262144 + (bytes[i + 1] - 128) * 4096
                     + (bytes[i + 2] - 128) * 64 + (bytes[i + 3] - 128)

\* toString('utf8'): every byte sequence that is not UTF-8 becomes U+FFFD
RECURSIVE utf8Decode(_, _)
utf8Decode(bytes, i) ==
  IF i > Len(bytes) THEN <<>>
  ELSE IF bytes[i] < 128 THEN <<bytes[i]>> \o utf8Decode(bytes, i + 1)
  ELSE LET need == Utf8Need(bytes[i])
           got == Utf8Continues(bytes, i)
       IN IF need > 0 /\ got = need
            THEN <<Utf8Value(bytes, i, need)>> \o utf8Decode(bytes, i + need + 1)
            ELSE <<ReplacementChar>> \o utf8Decode(bytes, i + got + 1)

\* Buffer.from(str, 'latin1'): the low byte of every character
latin1Encode(str) == [i \in DOMAIN str |-> str[i] % 256]

normalizeUploadFilename(originalName) ==
  LET hasOnlyLatin1 == \A i \in DOMAIN originalName : originalName[i] <= 255
      decoded == utf8Decode(latin1Encode(originalName), 1)
  IN IF ~hasOnlyLatin1 THEN originalName
     ELSE IF \E i \in DOMAIN decoded : decoded[i] = ReplacementChar
       THEN originalName
     ELSE decoded

\* file.originalname for a name the client sent as UTF-8: decoded as
\* UTF-8, or read as Latin-1, one character per byte
originalnameOf(sent, charset) ==
  IF charset = "utf8" THEN utf8Decode(utf8Encode(sent), 1)
  ELSE utf8Encode(sent)

InitNormalize ==
  /\ pg = NoPg
  /\ rate = NoRate
  /\ pure \in {[fn |-> "normalizeUploadFilename",
                args |-> <<originalnameOf(sent, charset), sent, charset>>,
                out |-> <<>>] :
                 sent \in SeqsUpTo(CodePoints, MaxTextLen),
                 charset \in {"utf8", "latin1"}}
  /\ rows = EmptyTable
  /\ store = {}
  /\ events = <<>>
  /\ now = 0
  /\ nextId = 1
  /\ idLimit = MaxIds
  /\ reqs = [r \in 1..1 |-> IdleReq]

\* const originalName = normalizeUploadFilename(originalNameRaw)
Normalize ==
  /\ pure.fn = "normalizeUploadFilename" /\ pure.out = <<>>
  /\ pure' = [pure EXCEPT !.out = <<normalizeUploadFilename(pure.args[1])>>]
  /\ UNCHANGED <<rows, store, events, now, nextId, idLimit, reqs, pg, rate>>

SpecNormalize == InitNormalize /\ [][Normalize]_vars


(***************************************************************************)
(* What a finished upload answered, and what its calls show per file.      *)
(***************************************************************************)
RespItems(q) ==
  IF q.body.tag = "batch" THEN q.body.items
  ELSE IF q.body.tag = "single" THEN <<q.body.item>>
  ELSE <<>>

RespFailed(q) ==
  IF q.body.tag \in {"batch", "batchError"} THEN q.body.failed ELSE <<>>

\* the request got past the middleware into the loop over its files
InLoop(q) == q.kind = "upload" /\ Len(q.files) > 0

CallsOf(q, i) == {k \in 1..Len(q.calls) : q.calls[k].file = i}

FileFailed(q, i) == \E k \in CallsOf(q, i) : ~q.calls[k].ok

FileSucceeded(q, i) ==
  \E k \in CallsOf(q, i) : q.calls[k].op = "buildDownloadUrl" /\ q.calls[k].ok

\* C1: in POST /media/upload every file of the batch is attempted and ends
\* in exactly one of items and failed, whatever step fails for whichever
\* file: while the loop runs, the files before the current one are all
\* accounted for; in the response |items| + |failed| is the number of files
\* received, each file either succeeded or failed, never both or neither.
C1_EveryFileLandsOnce ==
  \A r \in ReqIds :
    LET q == reqs[r] IN
    InLoop(q) =>
      IF q.pc = "done"
        THEN /\ q.body.tag \in {"batch", "single", "batchError"}
             /\ Len(RespItems(q)) + Len(RespFailed(q)) = Len(q.files)
             /\ \A i \in 1..Len(q.files) :
                  /\ CallsOf(q, i) # {}
                  /\ FileFailed(q, i) # FileSucceeded(q, i)
             /\ Cardinality({i \in 1..Len(q.files) : FileSucceeded(q, i)})
                  = Len(RespItems(q))
             /\ Cardinality({i \in 1..Len(q.files) : FileFailed(q, i)})
                  = Len(RespFailed(q))
        ELSE Len(q.items) + Len(q.failed) = q.idx - 1

\* a batch whose first file failed in the object store and whose second
\* file was then uploaded
C1_Witness ==
  \E r \in ReqIds :
    LET q == reqs[r] IN
    /\ InLoop(q) /\ q.pc = "done" /\ Len(q.files) = 2
    /\ q.body.tag = "batch"
    /\ Len(q.body.failed) = 1 /\ q.body.failed[1].message = "storage error"
    /\ Len(q.body.items) = 1
    /\ FileFailed(q, 1) /\ FileSucceeded(q, 2)

\* C2: a rejected publishMediaEvent never fails the upload: a file whose
\* object write and metadata row succeeded is reported in items (or as the
\* single object), and the publish failure is not reported to the client.
C2_PublishFailureNotSurfaced ==
  \A r \in ReqIds :
    LET q == reqs[r] IN
    (InLoop(q) /\ q.pc = "done") =>
      \A k \in 1..Len(q.calls) :
        (q.calls[k].op = "publishMediaEvent" /\ ~q.calls[k].ok) =>
          /\ \E i \in 1..Len(RespItems(q)) :
               RespItems(q)[i].record.id = q.calls[k].arg
          /\ \A i \in 1..Len(RespFailed(q)) :
               RespFailed(q)[i].message # "publish error"

RECURSIVE Flatten(_)
Flatten(ss) == IF ss = <<>> THEN <<>> ELSE Head(ss) \o Flatten(Tail(ss))

\* C3: paging through db.listMediaObjects from no cursor until no
\* nextCursor is returned yields every record of the scope exactly once, in
\* pages that strictly decrease by uploadedAt from one page to the next.
C3_PaginationComplete ==
  (pg.done /\ pg.limit > 0) =>
    LET all == Flatten(pg.pages) IN
    /\ \A i, j \in 1..Len(all) : i < j => all[i] # all[j]
    /\ {all[i] : i \in 1..Len(all)}
         = ListWhere(rows, pg.ownerId, NoCursor, pg.includeDeleted)
    /\ \A m, n \in 1..Len(pg.pages) :
         m < n => \A a \in 1..Len(pg.pages[m]), b \in 1..Len(pg.pages[n]) :
                    rows[pg.pages[m][a]].uploadedAt > rows[pg.pages[n][b]].uploadedAt

\* C4: no response of GET /media or GET /media/:id carries a URL for a
\* DELETED record, in url or in presignedUrl.
C4_DeletedHasNoUrl ==
  \A r \in ReqIds :
    LET q == reqs[r] IN
    (q.pc = "done" /\ q.status = 200) =>
      /\ q.kind = "list" =>
           \A i \in 1..Len(q.body.items) :
             q.body.items[i].record.status = "DELETED" =>
               q.body.items[i].url = NoUrl
      /\ q.kind = "get" =>
           (q.body.record.status = "DELETED" =>
              q.body.url = NoUrl /\ q.body.presignedUrl = NoUrl)

\* the soft-delete of this request made the ACTIVE -> DELETED transition
\* before its k-th call
SoftDeletedBefore(q, k) ==
  \E j \in 1..(k - 1) :
    /\ q.calls[j].op = "softDeleteMediaObject" /\ q.calls[j].ok
    /\ q.calls[j].row # NoRow

\* C6: in a DELETE with purge=true, deleteObject runs only after the
\* soft-delete of the same request made the ACTIVE -> DELETED transition.
C6_PurgeOnlyAfterSoftDelete ==
  \A r \in ReqIds :
    LET q == reqs[r] IN
    \A k \in 1..Len(q.calls) :
      q.calls[k].op = "deleteObject" => SoftDeletedBefore(q, k)

\* C7: a 'deleted' event is on the stream only for a record already
\* DELETED, it was published by a request whose softDeleteMediaObject
\* returned that record, and no id has two 'deleted' events, however the
\* concurrent DELETE requests interleave.
C7_AtMostOneDeletedEvent ==
  /\ \A e \in 1..Len(events) :
       events[e].action = "deleted" =>
         /\ events[e].id \in DOMAIN rows
         /\ rows[events[e].id].status = "DELETED"
  /\ \A e, f \in 1..Len(events) :
       (e < f /\ events[e].action = "deleted" /\ events[f].action = "deleted")
         => events[e].id # events[f].id
  /\ \A r \in ReqIds :
       LET q == reqs[r] IN
       q.kind = "delete" =>
         \A k \in 1..Len(q.calls) :
           q.calls[k].op = "publishMediaEvent" =>
             \E j \in 1..(k - 1) :
               /\ q.calls[j].op = "softDeleteMediaObject" /\ q.calls[j].ok
               /\ q.calls[j].row.id = q.calls[k].arg

\* two requests both read the record ACTIVE; one made the transition and
\* published, the other's soft-delete came back empty
C7_Witness ==
  \E r1, r2 \in ReqIds :
    LET q1 == reqs[r1]
        q2 == reqs[r2]
    IN /\ r1 # r2 /\ q1.kind = "delete" /\ q2.kind = "delete"
       /\ Len(q1.calls) >= 3 /\ Len(q2.calls) >= 2
       /\ q1.calls[1].row.status = "ACTIVE" /\ q2.calls[1].row.status = "ACTIVE"
       /\ q1.calls[2].row # NoRow
       /\ q1.calls[3].op = "publishMediaEvent" /\ q1.calls[3].ok
       /\ q2.calls[2].ok /\ q2.calls[2].row = NoRow
       /\ \E e \in 1..Len(events) : events[e].action = "deleted"

\* C8: db.softDeleteMediaObject on an ACTIVE record makes it DELETED and
\* returns it; on a DELETED record or an id the table does not hold it
\* returns nothing and leaves the table as it was.
C8_SoftDeleteIdempotent ==
  [][\A r \in ReqIds :
       (reqs'[r] # reqs[r] /\ reqs'[r].kind = "db") =>
         LET c == reqs'[r].calls[1]
             id == c.arg
         IN IF id \in DOMAIN rows /\ rows[id].status = "ACTIVE"
              THEN /\ c.row.id = id /\ c.row.status = "DELETED"
                   /\ rows'[id].status = "DELETED"
                   /\ \A o \in DOMAIN rows \ {id} : rows'[o] = rows[o]
              ELSE c.row = NoRow /\ rows' = rows]_vars

\* a later call for a record an earlier call already deleted came back
\* empty
C8_Witness ==
  \E r \in ReqIds :
    LET q == reqs[r] IN
    /\ q.kind = "db" /\ q.calls[1].row = NoRow
    /\ q.id \in DOMAIN rows /\ rows[q.id].status = "DELETED"
    /\ rows[q.id].deletedAt < now

\* C9: DELETE /media/:id answers 200 only in the request that made the
\* ACTIVE -> DELETED transition; for a record it found already DELETED an
\* authorized caller gets 404.
C9_SecondDeleteNotFound ==
  \A r \in ReqIds :
    LET q == reqs[r] IN
    (q.kind = "delete" /\ q.pc = "done") =>
      /\ q.status = 200 => SoftDeletedBefore(q, Len(q.calls) + 1)
      /\ (Len(q.calls) >= 1 /\ q.calls[1].row.status = "DELETED"
            /\ Authorized(q.user, q.calls[1].row)) => q.status = 404

LifecycleInv ==
  \A id \in DOMAIN rows :
    /\ rows[id].status \in {"ACTIVE", "DELETED"}
    /\ (rows[id].deletedAt # NoTime) <=> (rows[id].status = "DELETED")

LifecycleStep ==
  /\ \A id \in DOMAIN rows :
       /\ id \in DOMAIN rows'
       /\ rows[id].status = "DELETED" =>
            /\ rows'[id].status = "DELETED"
            /\ rows'[id].deletedAt = rows[id].deletedAt
  /\ \A id \in DOMAIN rows' \ DOMAIN rows :
       rows'[id].status = "ACTIVE" /\ rows'[id].deletedAt = NoTime

\* C10: a record is created ACTIVE with deletedAt null; its status is
\* always ACTIVE or DELETED and deletedAt is set exactly when it is DELETED;
\* once DELETED, no step of any upload, list, get, delete or presign
\* request makes it ACTIVE again or changes its deletedAt.
C10_Lifecycle == []LifecycleInv /\ [][LifecycleStep]_vars

\* a second DELETE went through db.softDeleteMediaObject on a record
\* deleted at an earlier time
C10_Witness ==
  \E r \in ReqIds :
    LET q == reqs[r] IN
    /\ q.kind = "delete"
    /\ \E k \in 1..Len(q.calls) :
         /\ q.calls[k].op = "softDeleteMediaObject" /\ q.calls[k].ok
         /\ q.calls[k].row = NoRow
         /\ rows[q.calls[k].arg].status = "DELETED"
         /\ rows[q.calls[k].arg].deletedAt < now

(***************************************************************************)
(* Scopes of GET /media.                                                   *)
(***************************************************************************)
\* the 200 bodies GET /media can answer `user` with for `query` on `table`
ListBodies(table, user, query) ==
  {[tag |-> "list",
    items |-> [i \in 1..Len(listMediaObjects(table, query.limit, ord).items) |->
                 [record |-> listMediaObjects(table, query.limit, ord).items[i],
                  url |-> ItemUrl(listMediaObjects(table, query.limit, ord).items[i])]],
    nextCursor |-> listMediaObjects(table, query.limit, ord).nextCursor] :
     ord \in DescOrders(table,
               ListWhere(table, ListOwnerId(user, query.scope), query.cursor,
                         ListIncludeDeleted(user, query.scope)))}

\* C11: GET /media?scope=all from a caller who is not ADMIN is not
\* rejected, and its 200 body is one that the same query with scope=self
\* gets in the same table: only ACTIVE records of the caller.
C11_ScopeAllDowngraded ==
  [][\A r \in ReqIds :
       LET q == reqs'[r] IN
       (q # reqs[r] /\ q.kind = "list" /\ q.pc = "done"
          /\ q.user.role # "ADMIN" /\ q.query.scope = "all"
          /\ q.query.limit >= LimitMin /\ q.query.limit <= LimitMax
          /\ q.query.cursor.kind # "invalid") =>
         /\ q.status \in {200, 500}
         /\ q.status = 200 =>
              /\ q.body \in ListBodies(rows, q.user,
                                       [q.query EXCEPT !.scope = "self"])
              /\ \A i \in 1..Len(q.body.items) :
                   /\ q.body.items[i].record.ownerId = q.user.id
                   /\ q.body.items[i].record.status = "ACTIVE"]_vars

\* a USER asked for scope=all over a table that holds an ACTIVE record of
\* somebody else, and got a record of their own
C11_Witness ==
  \E r \in ReqIds :
    LET q == reqs[r] IN
    /\ q.kind = "list" /\ q.pc = "done" /\ q.status = 200
    /\ q.user.role = "USER" /\ q.query.scope = "all"
    /\ Len(q.body.items) > 0
    /\ \E id \in DOMAIN rows :
         rows[id].ownerId # q.user.id /\ rows[id].status = "ACTIVE"

\* C12: a GET /media response holds a record of another owner, or a
\* DELETED record, only for an ADMIN asking for scope=all; with scope=self
\* every returned record is the caller's and ACTIVE, for an ADMIN too.
C12_ListScope ==
  \A r \in ReqIds :
    LET q == reqs[r] IN
    (q.kind = "list" /\ q.pc = "done" /\ q.status = 200) =>
      \A i \in 1..Len(q.body.items) :
        (\/ q.body.items[i].record.ownerId # q.user.id
         \/ q.body.items[i].record.status = "DELETED")
          => (q.user.role = "ADMIN" /\ q.query.scope = "all")

\* an ADMIN asked for scope=self over a table that holds a record of
\* somebody else and got a record of their own
C12_Witness ==
  \E r \in ReqIds :
    LET q == reqs[r] IN
    /\ q.kind = "list" /\ q.pc = "done" /\ q.status = 200
    /\ q.user.role = "ADMIN" /\ q.query.scope = "self"
    /\ Len(q.body.items) > 0
    /\ q.body.items[1].record.ownerId = q.user.id
    /\ \E id \in DOMAIN rows : rows[id].ownerId # q.user.id

(***************************************************************************)
(* The rate limiter.                                                       *)
(***************************************************************************)
WindowTicks == windowSeconds * TicksPerSec

C32_AtMostMaxPerKey ==
  /\ \A i, j \in 1..Len(rate.log) :
       (i < j /\ rate.log[i].key = rate.log[j].key)
         => rate.log[i].current < rate.log[j].current
  /\ \A k \in 0..MaxRateTicks :
       Cardinality({i \in 1..Len(rate.log) :
                      rate.log[i].key = k /\ rate.log[i].admitted})
         <= maxRequests

\* two calls were in flight at once on one key (the first still awaiting
\* its expire when the second incremented), a third call on that key was
\* rejected, and a call on the next key was admitted again
C32_Witness ==
  /\ Len(rate.log) = 4
  /\ rate.log[1].key = rate.log[3].key
  /\ rate.log[1].admitted /\ rate.log[2].admitted /\ ~rate.log[3].admitted
  /\ rate.log[4].key # rate.log[3].key /\ rate.log[4].admitted
  /\ rate.expiry = NoTime /\ rate.calls[1].pc = "expire"
  /\ rate.calls[2].pc = "done" /\ rate.calls[2].current = 3

\* C14: the expiry of the key is set only by the consume call whose
\* increment took the counter to 1.
C14_ExpiryArmedOnce ==
  [][(rate'.expiry # rate.expiry /\ rate'.expiry # NoTime) =>
       \E c \in 1..MaxConsumers :
         /\ rate.calls[c].pc = "expire" /\ rate'.calls[c].pc = "done"
         /\ rate.calls[c].current = 1]_vars

RateLimitedInv ==
  \A r \in ReqIds :
    LET q == reqs[r] IN
    q.status = 429 =>
      /\ q.kind \in {"upload", "presign", "delete"}
      /\ q.pc = "done" /\ q.calls = <<>>
      /\ q.body = [tag |-> "error", message |-> "Too many requests"]

RateLimitedStep ==
  \A r \in ReqIds :
    (reqs'[r] # reqs[r] /\ reqs'[r].status = 429) =>
      /\ rows' = rows /\ store' = store /\ events' = events
      /\ nextId' = nextId

\* C15: a request that the rate limiter rejects is answered 429 before
\* its handler runs: it has made no collaborator call, its body is the
\* error message alone (no signed URL), and the step that answers it
\* leaves the metadata table, the object store, the event stream and the
\* ids drawn as they were.
C15_RateLimitedNoEffect == []RateLimitedInv /\ [][RateLimitedStep]_vars

\* the owner's DELETE ?purge=true of an ACTIVE record was rejected
C15_Witness ==
  \E r \in ReqIds :
    LET q == reqs[r] IN
    /\ q.kind = "delete" /\ q.pc = "done" /\ q.status = 429 /\ q.flag
    /\ q.id \in DOMAIN rows /\ rows[q.id].status = "ACTIVE"
    /\ rows[q.id].ownerId = q.user.id
    /\ rows[q.id].storedKey \in store

\* C16: GET /media with a cursor that does not parse as a timestamp is
\* answered 400.
C16_InvalidCursorIsClientError ==
  \A r \in ReqIds :
    LET q == reqs[r] IN
    (q.kind = "list" /\ q.pc = "done" /\ q.query.cursor.kind = "invalid") =>
      q.status = 400

(***************************************************************************)
(* The shape of the upload response.                                       *)
(***************************************************************************)
\* the k-th smallest element of a set of numbers
Nth(S, k) == CHOOSE i \in S : Cardinality({j \in S : j < i}) = k - 1

\* the files whose every step resolved
Succeeded(q) == {i \in 1..Len(q.files) : FileSucceeded(q, i)}

\* the files that reached the terminal state Succeeded of the upload
\* pipeline: object written, metadata row created, and no step rejected
\* but, at most, the best-effort publish
Stored(q) ==
  {i \in 1..Len(q.files) :
     /\ \E k \in CallsOf(q, i) :
          q.calls[k].op = "createMediaObject" /\ q.calls[k].ok
     /\ \A k \in CallsOf(q, i) :
          ~q.calls[k].ok => q.calls[k].op = "publishMediaEvent"}

NotStored(q) == (1..Len(q.files)) \ Stored(q)

\* the message of the error a rejected step of the pipeline throws
ReasonOf(op) ==
  CASE op = "assertMimeType" -> "Unsupported mime type"
    [] op = "sharp" -> "Invalid image file"
    [] op = "uploadObject" -> "storage error"
    [] op = "createMediaObject" -> "database error"
    [] op = "publishMediaEvent" -> "publish error"
    [] op = "buildDownloadUrl" -> "sign error"

\* the entry of `failed` that file i of the batch is owed
FailureOf(q, i) ==
  [fileName |-> q.files[i].originalname,
   message |-> ReasonOf(q.calls[CHOOSE k \in CallsOf(q, i) : ~q.calls[k].ok].op)]

\* `item` is the record created for file i, with its URL
ItemIsOf(q, item, i) ==
  /\ item.record.originalName = q.files[i].originalname
  /\ item.record.ownerId = q.user.id
  /\ item.url # NoUrl
  /\ \E k \in CallsOf(q, i) :
       /\ q.calls[k].op = "createMediaObject" /\ q.calls[k].ok
       /\ q.calls[k].arg = item.record.id

\* C17: an upload with at least one succeeded file answers 201; with the
\* single object iff the batch was that one file; otherwise with
\* {items, failed}, items being the succeeded files, in order, and failed
\* one {fileName, message} per failed file, in order, with the message of
\* the step that rejected it.
C17_ResponseShape ==
  \A r \in ReqIds :
    LET q == reqs[r] IN
    (InLoop(q) /\ q.pc = "done" /\ Stored(q) # {}) =>
      /\ q.status = 201
      /\ q.body.tag \in {"single", "batch"}
      /\ q.body.tag = "single" <=> Len(q.files) = 1
      /\ q.body.tag = "single" => ItemIsOf(q, q.body.item, 1)
      /\ q.body.tag = "batch" =>
           /\ Len(q.body.items) = Cardinality(Stored(q))
           /\ Len(q.body.failed) = Cardinality(NotStored(q))
           /\ \A k \in 1..Len(q.body.items) :
                ItemIsOf(q, q.body.items[k], Nth(Stored(q), k))
           /\ \A k \in 1..Len(q.body.failed) :
                q.body.failed[k] = FailureOf(q, Nth(NotStored(q), k))

Stranger(user, row) ==
  row # NoRow /\ row.ownerId # user.id /\ user.role # "ADMIN"

\* a DELETE whose lookup returned a record to a stranger stopped there with
\* 403: no soft-delete, no publish, no deleteObject call was made
ForbiddenInv ==
  \A r \in ReqIds :
    LET q == reqs[r] IN
    (/\ q.kind = "delete" /\ Len(q.calls) >= 1
     /\ q.calls[1].ok /\ Stranger(q.user, q.calls[1].row)) =>
      /\ q.pc = "done" /\ q.status = 403 /\ q.body.tag = "error"
      /\ Len(q.calls) = 1

\* the step that answers a stranger's GET or DELETE for an existing record:
\* 403 (500 when the lookup itself failed), a body without url or
\* presignedUrl, and table, bucket and event stream as they were
ForbiddenStep ==
  \A r \in ReqIds :
    LET q == reqs'[r] IN
    (/\ q # reqs[r]
     /\ \/ q.kind = "get"
        \/ reqs[r].kind = "delete" /\ reqs[r].pc = "get"
     /\ Stranger(q.user, getMediaObjectById(rows, q.id))) =>
      /\ q.pc = "done" /\ q.body.tag = "error"
      /\ \/ q.status = 403
         \/ q.status = 500 /\ q.body.message = "database error"
      /\ rows' = rows /\ store' = store /\ events' = events

\* C19: GET /media/:id and DELETE /media/:id by a caller who is neither
\* the record's owner nor ADMIN answer 403 and change nothing: the record
\* keeps its status, no event is published, no object is deleted (purge
\* or not) and no url or presignedUrl is issued.
C19_ForbiddenNoEffect == []ForbiddenInv /\ [][ForbiddenStep]_vars

\* a USER was refused the purge of another user's ACTIVE record, whose
\* object is still in the bucket
C19_Witness ==
  \E r \in ReqIds :
    LET q == reqs[r] IN
    /\ q.kind = "delete" /\ q.pc = "done" /\ q.status = 403 /\ q.flag
    /\ q.user.role = "USER"
    /\ q.id \in DOMAIN rows /\ rows[q.id].ownerId # q.user.id
    /\ rows[q.id].status = "ACTIVE"
    /\ rows[q.id].storedKey \in store

(***************************************************************************)
(* After DELETE /media/:id?purge=true.                                     *)
(***************************************************************************)
\* the record `id` is soft-deleted and its object removed from the bucket:
\* the state a successful purge leaves
Purged(id) ==
  /\ id \in DOMAIN rows /\ rows[id].status = "DELETED"
  /\ rows[id].storedKey \notin store

\* C20: a DELETE /media/:id?purge=true answered 200 leaves the record
\* DELETED and its object out of the object store, and a GET /media/:id
\* for such a record is answered 404 (403 to a caller who is neither owner
\* nor ADMIN), never 200.
C20_PurgedIsGone ==
  \A r \in ReqIds :
    LET q == reqs[r] IN
    /\ (q.kind = "delete" /\ q.pc = "done" /\ q.status = 200 /\ q.flag) =>
         Purged(q.id)
    /\ (q.kind = "get" /\ q.pc = "done" /\ Purged(q.id)) =>
         \/ q.status = 404
         \/ q.status = 403 /\ Stranger(q.user, rows[q.id])
         \/ q.status = 500

(***************************************************************************)
(* POST /media/presign touches no store.                                   *)
(***************************************************************************)
\* a presign request made at most one collaborator call, the signing of
\* the PUT URL, and made it exactly when it got past validation
PresignInv ==
  \A r \in ReqIds :
    LET q == reqs[r] IN
    q.kind = "presign" =>
      /\ q.pc = "done"
      /\ Len(q.calls) <= 1
      /\ \A k \in 1..Len(q.calls) :
           q.calls[k].op = "generatePresignedUploadUrl"
      /\ q.status = 201 <=> (Len(q.calls) = 1 /\ q.calls[1].ok)
      /\ q.status \in {400, 429} => q.calls = <<>>

\* the step that answers a presign request leaves table, bucket and event
\* stream as they were
PresignStep ==
  \A r \in ReqIds :
    (reqs'[r].kind = "presign" /\ reqs'[r] # reqs[r]) =>
      rows' = rows /\ store' = store /\ events' = events

\* C21: POST /media/presign, accepted or rejected, never creates or
\* changes a metadata row, never writes an object, never publishes an
\* event; its only collaborator call is at most one request for a signed
\* PUT URL.
C21_PresignNoEffect == []PresignInv /\ [][PresignStep]_vars

\* a presign was answered 201 with a signed PUT URL for a key under which
\* no object and no row exists
C21_Witness ==
  \E r \in ReqIds :
    LET q == reqs[r] IN
    /\ q.kind = "presign" /\ q.pc = "done" /\ q.status = 201
    /\ Len(q.calls) = 1
    /\ q.body.key \notin store
    /\ \A id \in DOMAIN rows : rows[id].storedKey # q.body.key

(***************************************************************************)
(* URL resolution per item of a page.                                      *)
(***************************************************************************)
\* C22: in GET /media a failure to resolve the download URL of one record
\* does not fail the page: a listing whose query was accepted and whose
\* database read resolved answers 200 with the records of the page.
C22_PageSurvivesUrlFailure ==
  \A r \in ReqIds :
    LET q == reqs[r] IN
    (/\ q.kind = "list" /\ q.pc = "done"
     /\ ListParses(q.query) /\ q.query.cursor.kind # "invalid") =>
      \/ q.status = 200 /\ q.body.tag = "list"
      \/ q.status = 500 /\ q.body.message = "database error"

(***************************************************************************)
(* Keys of distinct objects.                                               *)
(***************************************************************************)
\* C23: buildObjectKey is injective on (ownerId, id): calls with different
\* (ownerId, id) never return the same key, whatever the extensions.
C23_KeyInjective ==
  (pure.fn = "buildObjectKey" /\ pure.out # <<>>) =>
    (<<pure.args[1].userId, pure.args[1].id>>
       # <<pure.args[2].userId, pure.args[2].id>>
     => pure.out[1] # pure.out[2])

\* keys were built for two owners, one of them with a slash in its id, and
\* came out of the same length
C23_Witness ==
  /\ pure.fn = "buildObjectKey" /\ pure.out # <<>>
  /\ pure.args[1].userId # pure.args[2].userId
  /\ \E i \in DOMAIN pure.args[2].userId : pure.args[2].userId[i] = "/"
  /\ Len(pure.out[1]) = Len(pure.out[2])
  /\ pure.out[1] # pure.out[2]

(***************************************************************************)
(* Who gets an identity.                                                   *)
(***************************************************************************)
\* the request carries a Bearer token that verifies against the key
BearerVerifies(req) ==
  /\ req.authorization.scheme = "bearer"
  /\ req.authorization.token # NoToken
  /\ req.authorization.token.verifies

\* C24: with JWT_PUBLIC_KEY configured, a request goes on to the handlers
\* with an identity only if it presented a Bearer token that verifies; in
\* every configuration a request with neither a valid credential nor an
\* x-user-id header is answered 401 and gets no identity.
C24_BearerInForce ==
  (pure.fn = "authMiddleware" /\ pure.out # <<>>) =>
    LET req == pure.args[1]
        out == pure.out[1]
    IN /\ (req.publicKey /\ out.user # NoUser) => BearerVerifies(req)
       /\ (req.xUserId = NoHeader /\ ~BearerVerifies(req)) =>
            out.status = 401 /\ out.user = NoUser

(***************************************************************************)
(* The ASCII fallback file name.                                           *)
(***************************************************************************)
\* C25: buildAsciiFallbackFilename returns a non-empty string of at most
\* 180 characters, all of them ASCII letters, digits, dot, underscore or
\* hyphen, for every display name and every inferred extension.
C25_FallbackSafe ==
  (pure.fn = "buildAsciiFallbackFilename" /\ pure.out # <<>>) =>
    LET out == pure.out[1] IN
    /\ out # <<>>
    /\ Len(out) <= 180
    /\ \A i \in DOMAIN out : out[i] \in {"a", "A", "0", ".", "_", "-"}

\* a name of more than 180 characters with a space, an accented letter and
\* a slash in it came out cut to 180
C25_Witness ==
  /\ pure.fn = "buildAsciiFallbackFilename" /\ pure.out # <<>>
  /\ Len(pure.args[1]) > 180
  /\ IndicesOf(pure.args[1], " ") # {}
  /\ IndicesOf(pure.args[1], "e'") # {}
  /\ Len(pure.out[1]) = 180

(***************************************************************************)
(* Names that need no repair.                                              *)
(***************************************************************************)
\* C26: normalizeUploadFilename returns unchanged every file name that
\* reached it correctly decoded: pure-ASCII names, and names of non-ASCII
\* text, those of code points up to 0xFF included.
C26_NormalizeIdentity ==
  (/\ pure.fn = "normalizeUploadFilename" /\ pure.out # <<>>
   /\ pure.args[3] = "utf8") =>
    pure.out[1] = pure.args[1]

(***************************************************************************)
(* Soft delete and purge.                                                  *)
(***************************************************************************)
\* a DELETE without the purge flag never comes to deleteObject
SoftOnlyInv ==
  \A r \in ReqIds :
    LET q == reqs[r] IN
    (q.kind = "delete" /\ ~q.flag) =>
      /\ q.pc # "purge"
      /\ \A k \in 1..Len(q.calls) : q.calls[k].op # "deleteObject"

\* an object leaves the bucket only in the deleteObject step of a DELETE
\* that carries the purge flag, and it is the object of that request's
\* record
SoftOnlyStep ==
  \A key \in store \ store' :
    \E r \in ReqIds :
      /\ reqs[r].kind = "delete" /\ reqs[r].flag /\ reqs[r].pc = "purge"
      /\ reqs'[r].pc = "done"
      /\ key = reqs[r].target.storedKey

\* C27: a DELETE /media/:id without purge=true never removes or alters the
\* stored object; the object under storedKey is removed only by a request
\* that carries the purge flag.
C27_SoftDeleteKeepsObject == []SoftOnlyInv /\ [][SoftOnlyStep]_vars

\* a DELETE without purge was answered 200: the record is DELETED and its
\* object is still in the bucket
C27_Witness ==
  \E r \in ReqIds :
    LET q == reqs[r] IN
    /\ q.kind = "delete" /\ q.pc = "done" /\ q.status = 200 /\ ~q.flag
    /\ rows[q.id].status = "DELETED"
    /\ rows[q.id].storedKey \in store

(***************************************************************************)
(* The order of the steps of one file.                                     *)
(***************************************************************************)
\* the awaited steps of a file whose type passed the MIME check
PipelineOrder ==
  <<"sharp", "uploadObject", "createMediaObject", "publishMediaEvent",
    "buildDownloadUrl">>

\* the calls made for each file: for a type outside the allow-list the
\* rejecting MIME check alone; otherwise a prefix of PipelineOrder, each
\* step after the resolution of the one before; one file after the other
PipelineInv ==
  \A r \in ReqIds :
    LET q == reqs[r] IN
    q.kind = "upload" =>
      /\ \A k \in 1..(Len(q.calls) - 1) : q.calls[k].file <= q.calls[k + 1].file
      /\ \A i \in 1..Len(q.files) :
           LET ks == CallsOf(q, i)
               n == Cardinality(ks)
           IN IF q.files[i].mimetype \notin DEFAULT_ALLOWED_TYPES
                THEN \A k \in ks :
                       n = 1 /\ q.calls[k].op = "assertMimeType" /\ ~q.calls[k].ok
                ELSE /\ n <= Len(PipelineOrder)
                     /\ \A j \in 1..n :
                          /\ q.calls[Nth(ks, j)].op = PipelineOrder[j]
                          /\ j < n => q.calls[Nth(ks, j)].ok
                     /\ ~q.files[i].decodable =>
                          \A k \in ks : n = 1 /\ ~q.calls[k].ok

\* bucket, table and event stream change only in the step of their own:
\* the object write, then the metadata create, then the publish, and only
\* for a file of an allowed type that decodes
PipelineStep ==
  \A r \in ReqIds :
    (reqs'[r] # reqs[r] /\ reqs[r].kind = "upload"
       /\ reqs[r].pc \notin {"idle", "done"}) =>
      LET q == reqs[r]
          file == q.files[q.idx]
      IN /\ store' # store => q.pc = "put"
         /\ rows' # rows => q.pc = "create"
         /\ events' # events => q.pc = "publish"
         /\ (store' # store \/ rows' # rows \/ events' # events) =>
              file.mimetype \in DEFAULT_ALLOWED_TYPES /\ file.decodable

NoRetryInv ==
  \A r \in ReqIds :
    LET q == reqs[r] IN
    q.kind = "upload" =>
      /\ \A k \in 1..Len(q.calls) : q.calls[k].op # "deleteObject"
      /\ \A i \in 1..Len(q.files) :
           \A op \in {"uploadObject", "createMediaObject", "publishMediaEvent"} :
             Cardinality({k \in CallsOf(q, i) : q.calls[k].op = op}) <= 1
      /\ \A k \in 1..Len(q.calls) :
           (q.calls[k].op = "createMediaObject" /\ ~q.calls[k].ok) =>
             LET id == q.calls[k].arg
                 i == q.calls[k].file
             IN /\ \E key \in store : key.id = id
                /\ id \notin DOMAIN rows
                /\ \A e \in 1..Len(events) : events[e].id # id
                /\ \A j \in CallsOf(q, i) : q.calls[j].op # "publishMediaEvent"
                /\ q.pc = "done" =>
                     /\ \E j \in 1..Len(RespFailed(q)) :
                          RespFailed(q)[j] =
                            [fileName |-> q.files[i].originalname,
                             message |-> "database error"]
                     /\ \A j \in 1..Len(RespItems(q)) :
                          RespItems(q)[j].record.id # id

\* no step of an upload takes an object out of the bucket
NoRetryStep == store \subseteq store'

\* C29: an upload neither retries nor compensates: uploadObject,
\* createMediaObject and publishMediaEvent are each called at most once per
\* file; when createMediaObject fails after the object was written the file
\* is reported Failed, the object stays in the store (no deleteObject) and
\* no event is published for it.
C29_NoRetryNoCompensation == []NoRetryInv /\ [][NoRetryStep]_vars

\* an upload was answered after createMediaObject failed for a file whose
\* object is in the bucket without a row
C29_Witness ==
  \E r \in ReqIds :
    LET q == reqs[r] IN
    /\ InLoop(q) /\ q.pc = "done"
    /\ \E k \in 1..Len(q.calls) :
         /\ q.calls[k].op = "createMediaObject" /\ ~q.calls[k].ok
         /\ \E key \in store : key.id = q.calls[k].arg
         /\ q.calls[k].arg \notin DOMAIN rows

(***************************************************************************)
(* Owner and key of a created row.                                         *)
(***************************************************************************)
\* every row's key is uploads/{ownerId}/{id}{.ext?} of its own owner and
\* id, with the extension of its type, and is the one key of that id in
\* the bucket
RowKeyInv ==
  \A id \in DOMAIN rows :
    LET row == rows[id] IN
    /\ row.id = id
    /\ row.storedKey =
         [prefix |-> "uploads", userId |-> row.ownerId, id |-> id,
          ext |-> byMime(row.mimeType)]
    /\ row.storedKey \in store
    /\ \A key \in store : key.id = id => key = row.storedKey

\* a row comes into being in the createMediaObject step of an upload, with
\* the caller of that request as owner and the key that request wrote its
\* object under; the object write puts exactly that key into the bucket
RowKeyStep ==
  /\ \A id \in DOMAIN rows' \ DOMAIN rows :
       \E r \in ReqIds :
         LET q == reqs[r] IN
         /\ q.kind = "upload" /\ q.pc = "create" /\ reqs'[r] # q
         /\ q.cur.id = id
         /\ rows'[id].ownerId = q.user.id
         /\ rows'[id].storedKey = q.cur.key
         /\ q.cur.key \in store
         /\ q.calls[Len(q.calls)].op = "uploadObject"
         /\ q.calls[Len(q.calls)].ok /\ q.calls[Len(q.calls)].arg = id
  /\ \A r \in ReqIds :
       (reqs[r].kind = "upload" /\ reqs[r].pc = "put" /\ reqs'[r] # reqs[r]) =>
         /\ store' \in {store, store \cup {reqs[r].cur.key}}
         /\ reqs'[r].pc = "create" =>
              reqs'[r].cur = reqs[r].cur /\ reqs[r].cur.key \in store'

\* C30: every metadata row created by upload has the authenticated caller
\* of the creating request as ownerId and uploads/{ownerId}/{id}{.ext?},
\* built from that ownerId and the row's own id, as storedKey; that key is
\* the key under which the same request wrote the object.
C30_RowOwnerAndKey == []RowKeyInv /\ [][RowKeyStep]_vars

\* uploads of two callers have left a row each, both objects in the bucket
C30_Witness ==
  \E a, b \in DOMAIN rows :
    /\ rows[a].ownerId = "u1" /\ rows[b].ownerId = "u2"
    /\ rows[a].storedKey \in store /\ rows[b].storedKey \in store
    /\ rows[a].storedKey.userId = "u1" /\ rows[b].storedKey.userId = "u2"

(***************************************************************************)
(* Immutability of a record after creation                                 *)
(***************************************************************************)
\* the fields createMediaObject wrote are the fields of `after`
SameAsCreated(before, after) ==
  /\ after.id = before.id
  /\ after.ownerId = before.ownerId
  /\ after.originalName = before.originalName
  /\ after.storedKey = before.storedKey
  /\ after.mimeType = before.mimeType
  /\ after.sizeBytes = before.sizeBytes
  /\ after.width = before.width
  /\ after.height = before.height
  /\ after.uploadedAt = before.uploadedAt

ImmutableStep ==
  /\ \A id \in DOMAIN rows :
       /\ id \in DOMAIN rows'
       /\ SameAsCreated(rows[id], rows'[id])
  /\ \A r \in ReqIds :
       (reqs'[r] # reqs[r] /\ reqs'[r].kind \in {"list", "get", "presign"})
         => rows' = rows
  /\ \A r \in ReqIds :
       (reqs'[r] # reqs[r] /\ reqs'[r].kind = "delete"
          /\ Len(reqs'[r].calls) > Len(reqs[r].calls)
          /\ reqs'[r].calls[Len(reqs'[r].calls)].op = "softDeleteMediaObject")
         => \A o \in DOMAIN rows \ {reqs'[r].id} : rows'[o] = rows[o]

\* C31: once created, a record keeps its id, ownerId, originalName,
\* storedKey, mimeType, sizeBytes, width, height and uploadedAt in every
\* step; softDeleteMediaObject changes only status and deletedAt of its one
\* record, and a step of a list, get or presign request leaves the table as
\* it was.
C31_ImmutableRecord == [][ImmutableStep]_vars

\* a DELETE request soft-deleted an uploaded record at a later time than its
\* upload, and the record still carries what the upload wrote
C31_Witness ==
  \E id \in DOMAIN rows :
    /\ rows[id].status = "DELETED"
    /\ rows[id].deletedAt > rows[id].uploadedAt
    /\ rows[id].sizeBytes = 3 /\ rows[id].width = 2 /\ rows[id].height = 1
    /\ \E r \in ReqIds :
         /\ reqs[r].kind = "delete" /\ reqs[r].id = id
         /\ \E k \in 1..Len(reqs[r].calls) :
              /\ reqs[r].calls[k].op = "softDeleteMediaObject"
              /\ reqs[r].calls[k].row # NoRow

Failed(q) == {i \in 1..Len(q.files) : FileFailed(q, i)}

\* C34: in the upload response the entries keep the order in which the
\* files were received, the file of field `file` ahead of those of field
\* `files`: the k-th entry of items is for the k-th file of the batch that
\* went through, the k-th entry of failed for the k-th file that failed.
C34_ResponseInInputOrder ==
  \A r \in ReqIds :
    LET q == reqs[r] IN
    (InLoop(q) /\ q.pc = "done") =>
      /\ \A j \in 1..Len(q.files) : q.files[j].fieldname = "file" => j = 1
      /\ Len(RespItems(q)) = Cardinality(Succeeded(q))
      /\ \A k \in 1..Len(RespItems(q)) :
           ItemIsOf(q, RespItems(q)[k], Nth(Succeeded(q), k))
      /\ Len(RespFailed(q)) = Cardinality(Failed(q))
      /\ \A k \in 1..Len(RespFailed(q)) :
           RespFailed(q)[k] = FailureOf(q, Nth(Failed(q), k))

\* a batch of field `file` and two of field `files`: the first and the
\* last failed for different reasons, the one between went through
C34_Witness ==
  \E r \in ReqIds :
    LET q == reqs[r] IN
    /\ InLoop(q) /\ q.pc = "done" /\ Len(q.files) = 3
    /\ q.files[1].fieldname = "file" /\ q.files[2].fieldname = "files"
    /\ q.body.tag = "batch"
    /\ Len(q.body.items) = 1 /\ Len(q.body.failed) = 2
    /\ Succeeded(q) = {2}
    /\ q.body.failed[1].message # q.body.failed[2].message

====
